---- MODULE Spec2Model ----
(***************************************************************************)
(* A model of the storage-management core: the copy-on-write Trie          *)
(* (src/primer/trie.cpp), the LRU-K replacer (src/buffer/lru_k_replacer)   *)
(* and the buffer pool manager (src/buffer/buffer_pool_manager.cpp).       *)
(*                                                                         *)
(* The trie lives in a heap of nodes (nodes), shared_ptr values are        *)
(* indices into the heap, and every Trie handle the caller keeps is an     *)
(* entry of tries.  Put and Remove are translated statement by statement:  *)
(* what the code writes through a pointer is written to the heap cell.     *)
(***************************************************************************)
EXTENDS Integers, Sequences, FiniteSets, TLC

VARIABLES
    nodes,      \* the heap of TrieNode objects: nodes[p] is the object shared_ptr p owns
    tries,      \* the Trie handles the caller holds: tries[i] is root_ of version i
    trie_from,  \* trie_from[i] is the version the call that returned version i was made on
    trie_op,    \* the last Trie call: its arguments and the handle it returned
    crashed,    \* TRUE once a call dereferenced a null pointer or failed an assertion
                \* (the process is gone)
    replacer,   \* the LRUKReplacer object: its fields
    repl_first, \* history: the tracked frames with fewer than k accesses, oldest first
                \* access first
    repl_last,  \* history: the tracked frames with k accesses or more, oldest most
                \* recent access first
    repl_op,    \* what the last LRUKReplacer call returned, if it was an Evict
    bpm,        \* the BufferPoolManager object: its fields, the replacer and the disk
    pool_pc,    \* per thread: "idle", or "unpin" between UnpinPage's unlocked test of
                \* page_table_ and its taking of latch_
    pool_arg,   \* per thread: the page_id of the UnpinPage call it is in
    pt_writer,  \* the thread whose call wrote page_table_ in the last step (0: none):
                \* an unlocked read of page_table_ by another thread overlaps that write
    written,    \* history: per page id, the bytes a caller last wrote into its frame
    covered,    \* history: per page id, TRUE once UnpinPage(id, true) has returned
                \* true after that write
    scn_step,   \* history: how far the calls made so far follow the end-to-end
                \* scenario (OffScript: they do not)
    loop_left,  \* per thread: the calls left in its loop of FetchPage(p); UnpinPage(p)
                \* (NotLooping: the thread calls what it likes)
    holds,      \* history, per looping thread: its FetchPage calls that returned a
                \* page, less its UnpinPage calls that returned true
    request_queue,  \* DiskScheduler::request_queue_: the requests put and not yet got
    worker_pc,      \* where the background thread is in StartWorkerThread
    request,        \* the local variable request of StartWorkerThread
    disk_log,       \* history: the ReadPage / WritePage calls the disk manager got
    scheduled,      \* history: the requests in the order Schedule put them
    fulfilled,      \* per request: the times its callback_ was set
    dtor_pc,        \* where the thread that destroys the scheduler is in ~DiskScheduler
    dtor_backlog,   \* history: the requests not yet fulfilled when ~DiskScheduler began
    guards,         \* the page guard objects of a caller, by the variable that holds them
    guard_calls,    \* history: the RUnlatch / WUnlatch / UnpinPage calls the guards made
    guard_pins,     \* history: the kind of guard of each guarded fetch that returned a page
    latch_,         \* BufferPoolManager::latch_: the thread that holds it (0: none)
    rw_latch,       \* per frame, Page::rwlatch_: the threads that hold it shared, and
                    \* the thread that holds it exclusively (0: none)
    in_call,        \* per thread: the pool method it is in and where it is in it
    held            \* per thread: the page guard it holds

trie_vars == <<nodes, tries, trie_from, trie_op>>

repl_vars == <<replacer, repl_first, repl_last, repl_op>>

caller_vars == <<written, covered, scn_step, loop_left, holds>>

pool_vars == <<bpm, pool_pc, pool_arg, pt_writer, caller_vars>>

sched_vars == <<request_queue, worker_pc, request, disk_log, scheduled, fulfilled,
                dtor_pc, dtor_backlog>>

\* The objects the tries, the replacer and the pool do not touch.
guard_vars == <<guards, guard_calls, guard_pins>>

latch_vars == <<latch_, rw_latch, in_call, held>>

other_vars == <<sched_vars, guard_vars, latch_vars>>

vars == <<trie_vars, repl_vars, pool_vars, other_vars, crashed>>

\* ------------------------------------------------------------------ bounds

\* Number of Trie handles (versions) the caller keeps, the empty trie included.
MaxTries == 4

\* RecordAccess is not called on a frame whose access count has reached this.
MaxAccessCount == 3

\* num_frames of the replacer that is driven on its own.
NumFrames == 3

\* pool_size of the buffer pool.
PoolSize == 2

\* NewPage is not called once next_page_id_ has reached this; FetchPage,
\* UnpinPage, FlushPage and DeletePage are called with the ids below it.
MaxPageId == 3

\* The number of times each looping thread runs FetchPage(p); UnpinPage(p).
LoopRounds == 3

\* pool_size of the pool whose caller writes into its pages.
DataPoolSize == 1

\* FetchPage is not called on a resident page whose pin count has reached this.
MaxPin == 2

\* DeletePage is not called where it would make free_list_ longer than this.
MaxFreeList == 2

\* NewPage and FetchPage are not called where they would record an access to a
\* frame of the pool that has this many already.
MaxPoolAccess == 2

\* ------------------------------------------------------------------ Trie

\* nullptr: a shared_ptr that owns nothing (root_ of the empty trie, a missing child).
Null == 0

Chars == {"a", "b"}

\* The keys the caller uses: the empty key, a key and its prefix, siblings at
\* both levels.
Keys == { <<>>, <<"a">>, <<"b">>, <<"a", "a">>, <<"a", "b">> }

\* The instantiations of Put<T>/Get<T> the caller uses.
Types == {"uint32_t", "uint64_t"}

\* The (T, value) pairs the caller puts.
PutValues == { <<"uint32_t", 1>>, <<"uint32_t", 2>> }

NoChildren == [c \in Chars |-> Null]

\* TrieNode(children): is_value_node_ is false.
TrieNode(children) ==
    [children |-> children, is_value_node |-> FALSE, type |-> "none", value |-> 0]

\* TrieNodeWithValue<T>(children, value): is_value_node_ is true.
TrieNodeWithValue(children, T, value) ==
    [children |-> children, is_value_node |-> TRUE, type |-> T, value |-> value]

\* children_.empty() and children_.size()
ChildrenEmpty(n) == \A c \in Chars : n.children[c] = Null
ChildrenSize(n) == Cardinality({c \in Chars : n.children[c] # Null})

\* make_shared<...>(obj): a new heap cell; the pointer is its index.
Alloc(h, obj) == [heap |-> Append(h, obj), ptr |-> Len(h) + 1]

\* n->Clone(): a new object with the same children_ (and, for a value node,
\* the same value_), owned by a new pointer.
Clone(h, n) == Alloc(h, h[n])

\* Trie::Get<T>(key): <<>> is nullptr, <<v>> a pointer to the value v.
RECURSIVE GetWalk(_, _, _, _)
GetWalk(h, node, key, i) ==
    IF i > Len(key) THEN node
    ELSE IF h[node].children[key[i]] = Null THEN Null
    ELSE GetWalk(h, h[node].children[key[i]], key, i + 1)

Get(h, root, key, T) ==
    IF root = Null THEN <<>>
    ELSE LET node == GetWalk(h, root, key, 1) IN
         IF node = Null THEN <<>>
         ELSE IF ~h[node].is_value_node THEN <<>>
         ELSE IF h[node].type # T THEN <<>>     \* dynamic_cast fails
         ELSE <<h[node].value>>

\* Trie::Put, root_ == nullptr: the chain of nodes is built from the value
\* node upwards.
RECURSIVE PutFresh(_, _, _, _)
PutFresh(h, node, key, i) ==
    IF i = 0 THEN [heap |-> h, root |-> node]
    ELSE LET a == Alloc(h, TrieNode([NoChildren EXCEPT ![key[i]] = node]))
         IN  PutFresh(a.heap, a.ptr, key, i - 1)

\* Trie::Put, the loop over key: the child on the path is cloned (or created)
\* and linked into p, which is itself a node this call created.
RECURSIVE PutWalk(_, _, _, _, _)
PutWalk(h, p, pre_node, key, i) ==
    IF i > Len(key) THEN [heap |-> h, p |-> p, pre_node |-> pre_node]
    ELSE LET c == key[i]
             a == IF h[p].children[c] # Null
                  THEN Clone(h, h[p].children[c])
                  ELSE Alloc(h, TrieNode(NoChildren))
             h2 == [a.heap EXCEPT ![p].children[c] = a.ptr]
         IN  PutWalk(h2, a.ptr, p, key, i + 1)

\* A Put that walks the old root itself instead of a clone of it.
PutCowInPlace(h, root, key, node) ==
    LET w == PutWalk(h, root, root, key, 1)
        h1 == IF ~ChildrenEmpty(w.heap[w.p])
              THEN [w.heap EXCEPT ![node].children = w.heap[w.p].children]
              ELSE w.heap
        h2 == [h1 EXCEPT ![w.pre_node].children[key[Len(key)]] = node]
    IN  [heap |-> h2, root |-> root]

\* A Put whose value node never takes over the children of the node it replaces.
PutCowDropChildren(h, root, key, node) ==
    LET r == Clone(h, root)
        w == PutWalk(r.heap, r.ptr, r.ptr, key, 1)
        h2 == [w.heap EXCEPT ![w.pre_node].children[key[Len(key)]] = node]
    IN  [heap |-> h2, root |-> r.ptr]

\* Trie::Put, the copy-on-write part: key is not empty and root_ is not null.
PutCow(h, root, key, node) ==
    LET r == Clone(h, root)
        w == PutWalk(r.heap, r.ptr, r.ptr, key, 1)
        h1 == IF ~ChildrenEmpty(w.heap[w.p])
              THEN [w.heap EXCEPT ![node].children = w.heap[w.p].children]
              ELSE w.heap
        h2 == [h1 EXCEPT ![w.pre_node].children[key[Len(key)]] = node]
    IN  [heap |-> h2, root |-> r.ptr]

\* Trie::Put<T>(key, value): the heap after the call and root_ of the trie returned.
Put(h, root, key, T, value) ==
    LET n == Alloc(h, TrieNodeWithValue(NoChildren, T, value)) IN
    IF root = Null THEN PutFresh(n.heap, n.ptr, key, Len(key))
    ELSE IF key = <<>>
    THEN [heap |-> [n.heap EXCEPT ![n.ptr].children = n.heap[root].children],
          root |-> n.ptr]
    ELSE PutCow(n.heap, root, key, n.ptr)

\* Trie::Remove, the walk that records the path; found is FALSE where the
\* code returns *this.
RECURSIVE RemovePath(_, _, _, _, _)
RemovePath(h, node, key, i, path) ==
    IF i > Len(key) THEN [found |-> TRUE, path |-> path]
    ELSE IF h[node].children[key[i]] # Null
    THEN RemovePath(h, h[node].children[key[i]], key, i + 1,
                    Append(path, h[node].children[key[i]]))
    ELSE [found |-> FALSE, path |-> path]

\* A backtracking step that prunes an ancestor for having a single child even
\* when the ancestor holds a value.
RECURSIVE RemoveLeafNoValueTest(_, _, _, _, _, _)
RemoveLeafNoValueTest(h, path, key, j, clone_node, copy_rest) ==
    IF j = 0 THEN [heap |-> h, clone_node |-> clone_node]
    ELSE IF (ChildrenSize(h[path[j]]) > 1) /\ ~copy_rest
    THEN LET a == Clone(h, path[j])
             h2 == [a.heap EXCEPT ![a.ptr].children[key[j]] = Null]
         IN  RemoveLeafNoValueTest(h2, path, key, j - 1, a.ptr, TRUE)
    ELSE IF copy_rest
    THEN LET a == Clone(h, path[j])
             h2 == [a.heap EXCEPT ![a.ptr].children[key[j]] = clone_node]
         IN  RemoveLeafNoValueTest(h2, path, key, j - 1, a.ptr, TRUE)
    ELSE RemoveLeafNoValueTest(h, path, key, j - 1, clone_node, copy_rest)

\* Trie::Remove, the terminal node has no children: backtrack from its parent
\* path[j] (reached over the edge key[j]) to the root.
RECURSIVE RemoveLeaf(_, _, _, _, _, _)
RemoveLeaf(h, path, key, j, clone_node, copy_rest) ==
    IF j = 0 THEN [heap |-> h, clone_node |-> clone_node]
    ELSE IF (h[path[j]].is_value_node \/ ChildrenSize(h[path[j]]) > 1) /\ ~copy_rest
    THEN LET a == Clone(h, path[j])
             h2 == [a.heap EXCEPT ![a.ptr].children[key[j]] = Null]
         IN  RemoveLeaf(h2, path, key, j - 1, a.ptr, TRUE)
    ELSE IF copy_rest
    THEN LET a == Clone(h, path[j])
             h2 == [a.heap EXCEPT ![a.ptr].children[key[j]] = clone_node]
         IN  RemoveLeaf(h2, path, key, j - 1, a.ptr, TRUE)
    ELSE RemoveLeaf(h, path, key, j - 1, clone_node, copy_rest)

\* Trie::Remove, the terminal node has children: every ancestor is cloned and
\* linked to the clone below it.
RECURSIVE RemoveInner(_, _, _, _, _)
RemoveInner(h, path, key, j, clone_node) ==
    IF j = 0 THEN [heap |-> h, clone_node |-> clone_node]
    ELSE LET a == Clone(h, path[j])
             h2 == [a.heap EXCEPT ![a.ptr].children[key[j]] = clone_node]
         IN  RemoveInner(h2, path, key, j - 1, a.ptr)

\* Trie::Remove(key): the heap after the call, root_ of the trie returned, and
\* crash = TRUE when the call dereferences the null root_ (node->children_ in
\* the walk, or path.back()->children_ for the empty key).
Remove(h, root, key) ==
    IF root = Null THEN [heap |-> h, root |-> Null, crash |-> TRUE]
    ELSE
    LET w == RemovePath(h, root, key, 1, <<root>>) IN
    IF ~w.found THEN [heap |-> h, root |-> root, crash |-> FALSE]
    ELSE
    LET path == w.path
        last == path[Len(path)]
        c0 == Alloc(h, TrieNode(NoChildren))
        r == IF ChildrenEmpty(h[last])
             THEN RemoveLeaf(c0.heap, path, key, Len(key), c0.ptr, FALSE)
             ELSE IF h[last].is_value_node
                  THEN LET a == Clone(c0.heap, last)
                           b == Alloc(a.heap, TrieNode(a.heap[a.ptr].children))
                       IN  RemoveInner(b.heap, path, key, Len(key), b.ptr)
                  ELSE RemoveInner(c0.heap, path, key, Len(key), c0.ptr)
        cn == r.heap[r.clone_node]
    IN  [heap |-> r.heap,
         root |-> IF ChildrenEmpty(cn) /\ ~cn.is_value_node THEN Null ELSE r.clone_node,
         crash |-> FALSE]

\* What a caller can observe of the trie rooted at root: Get<T>(key) for every
\* key and every T.
Obs(h, root) == [k \in Keys, T \in Types |-> Get(h, root, k, T)]

\* ------------------------------------------------------------------ LRUKReplacer

\* The frame ids of a replacer (or pool) of n frames.
FrameIds(n) == 0..(n - 1)

\* The list without its first occurrence of x (std::list::erase of the node an
\* iterator of x points to).
RECURSIVE ListErase(_, _)
ListErase(list, x) ==
    IF list = <<>> THEN <<>>
    ELSE IF Head(list) = x THEN Tail(list)
    ELSE <<Head(list)>> \o ListErase(Tail(list), x)

\* LRUKReplacer(num_frames, k).  count_map[f] = 0 stands for "f is not a key of
\* count_map_".  An iterator map holds, per frame, "none" (no entry), "valid"
\* (an iterator to the frame's node in the list) or "stale" (an iterator to a
\* node that was erased).  fault records how a call ended the process: "assert"
\* (BUSTUB_ASSERT failed) or "ub" (std::list::erase of an iterator that points
\* to no node of the list).
LRUKReplacer(num_frames, k) ==
    [ replacer_size         |-> num_frames,
      k                     |-> k,
      curr_size             |-> 0,
      inf_history_list      |-> <<>>,
      history_list          |-> <<>>,
      count_map             |-> [f \in FrameIds(num_frames) |-> 0],
      inf_history_iter_map  |-> [f \in FrameIds(num_frames) |-> "none"],
      history_iter_map      |-> [f \in FrameIds(num_frames) |-> "none"],
      non_evictable_set     |-> {},
      fault                 |-> "none" ]

\* BUSTUB_ASSERT(size_t(frame_id) < replacer_size_ && frame_id >= 0)
FrameIdOk(r, frame_id) == frame_id >= 0 /\ frame_id < r.replacer_size

\* The index of the first frame of list that is not in non_evictable_set_, 0 if
\* there is none (the two scans of Evict).
FirstEvictable(r, list) ==
    LET idx == {i \in 1..Len(list) : list[i] \notin r.non_evictable_set}
    IN  IF idx = {} THEN 0 ELSE CHOOSE i \in idx : \A j \in idx : i <= j

\* An Evict that scans history_list_ before inf_history_list_.
EvictHistoryFirst(r) ==
    IF r.curr_size = 0 THEN [r |-> r, ret |-> FALSE, frame_id |-> 0]
    ELSE
    LET i == FirstEvictable(r, r.inf_history_list)
        j == FirstEvictable(r, r.history_list)
    IN  IF j # 0
        THEN LET f == r.history_list[j] IN
             [r |-> [r EXCEPT !.count_map[f] = 0,
                              !.history_list = ListErase(@, f),
                              !.history_iter_map[f] = "none",
                              !.curr_size = @ - 1],
              ret |-> TRUE, frame_id |-> f]
        ELSE IF i # 0
        THEN LET f == r.inf_history_list[i] IN
             [r |-> [r EXCEPT !.count_map[f] = 0,
                              !.inf_history_list = ListErase(@, f),
                              !.inf_history_iter_map[f] = "none",
                              !.curr_size = @ - 1],
              ret |-> TRUE, frame_id |-> f]
        ELSE [r |-> r, ret |-> FALSE, frame_id |-> 0]

\* LRUKReplacer::Evict(&frame_id): the replacer after the call, the value
\* returned and *frame_id (meaningful when ret is TRUE).
Evict(r) ==
    IF r.curr_size = 0 THEN [r |-> r, ret |-> FALSE, frame_id |-> 0]
    ELSE
    LET i == FirstEvictable(r, r.inf_history_list)
        j == FirstEvictable(r, r.history_list)
    IN  IF i # 0
        THEN LET f == r.inf_history_list[i] IN
             [r |-> [r EXCEPT !.count_map[f] = 0,
                              !.inf_history_list = ListErase(@, f),
                              !.inf_history_iter_map[f] = "none",
                              !.curr_size = @ - 1],
              ret |-> TRUE, frame_id |-> f]
        ELSE IF j # 0
        THEN LET f == r.history_list[j] IN
             [r |-> [r EXCEPT !.count_map[f] = 0,
                              !.history_list = ListErase(@, f),
                              !.history_iter_map[f] = "none",
                              !.curr_size = @ - 1],
              ret |-> TRUE, frame_id |-> f]
        ELSE [r |-> r, ret |-> FALSE, frame_id |-> 0]

\* LRUKReplacer::RecordAccess(frame_id)
RecordAccess(r, frame_id) ==
    IF ~FrameIdOk(r, frame_id) THEN [r EXCEPT !.fault = "assert"]
    ELSE IF r.count_map[frame_id] = 0
    THEN \* first record
         [r EXCEPT !.inf_history_list = Append(@, frame_id),
                   !.inf_history_iter_map[frame_id] = "valid",
                   !.count_map[frame_id] = 1,
                   !.curr_size = @ + 1]
    ELSE IF r.count_map[frame_id] >= r.k
    THEN \* record in the LRU list
         IF r.history_iter_map[frame_id] # "valid" THEN [r EXCEPT !.fault = "ub"]
         ELSE [r EXCEPT !.history_list = Append(ListErase(@, frame_id), frame_id),
                        !.history_iter_map[frame_id] = "valid",
                        !.count_map[frame_id] = @ + 1]
    ELSE IF r.count_map[frame_id] + 1 >= r.k
    THEN \* the frame moves from the FIFO list to the LRU list; its entry of
         \* inf_history_iter_map_ stays, pointing to the erased node
         IF r.inf_history_iter_map[frame_id] # "valid" THEN [r EXCEPT !.fault = "ub"]
         ELSE [r EXCEPT !.count_map[frame_id] = @ + 1,
                        !.inf_history_list = ListErase(@, frame_id),
                        !.inf_history_iter_map[frame_id] = "stale",
                        !.history_list = Append(@, frame_id),
                        !.history_iter_map[frame_id] = "valid"]
    ELSE [r EXCEPT !.count_map[frame_id] = @ + 1]

\* A SetEvictable that moves the frame in and out of the set without counting.
SetEvictableNoCount(r, frame_id, set_evictable) ==
    IF ~FrameIdOk(r, frame_id) THEN [r EXCEPT !.fault = "assert"]
    ELSE IF r.count_map[frame_id] = 0 THEN r
    ELSE IF frame_id \notin r.non_evictable_set /\ ~set_evictable
    THEN [r EXCEPT !.non_evictable_set = @ \cup {frame_id}]
    ELSE IF frame_id \in r.non_evictable_set /\ set_evictable
    THEN [r EXCEPT !.non_evictable_set = @ \ {frame_id}]
    ELSE r

\* LRUKReplacer::SetEvictable(frame_id, set_evictable).  The two ifs of the code
\* exclude each other: the first needs !set_evictable, the second set_evictable.
SetEvictable(r, frame_id, set_evictable) ==
    IF ~FrameIdOk(r, frame_id) THEN [r EXCEPT !.fault = "assert"]
    ELSE IF r.count_map[frame_id] = 0 THEN r
    ELSE IF frame_id \notin r.non_evictable_set /\ ~set_evictable
    THEN [r EXCEPT !.non_evictable_set = @ \cup {frame_id}, !.curr_size = @ - 1]
    ELSE IF frame_id \in r.non_evictable_set /\ set_evictable
    THEN [r EXCEPT !.non_evictable_set = @ \ {frame_id}, !.curr_size = @ + 1]
    ELSE r

\* LRUKReplacer::Remove(frame_id)
ReplacerRemove(r, frame_id) ==
    IF ~FrameIdOk(r, frame_id) THEN [r EXCEPT !.fault = "assert"]
    ELSE IF r.count_map[frame_id] = 0 THEN r
    ELSE IF frame_id \in r.non_evictable_set THEN r
    ELSE IF r.count_map[frame_id] >= r.k
    THEN IF r.history_iter_map[frame_id] # "valid" THEN [r EXCEPT !.fault = "ub"]
         ELSE [r EXCEPT !.history_list = ListErase(@, frame_id),
                        !.history_iter_map[frame_id] = "none",
                        !.count_map[frame_id] = 0,
                        !.curr_size = @ - 1]
    ELSE IF r.inf_history_iter_map[frame_id] # "valid" THEN [r EXCEPT !.fault = "ub"]
         ELSE [r EXCEPT !.inf_history_list = ListErase(@, frame_id),
                        !.inf_history_iter_map[frame_id] = "none",
                        !.count_map[frame_id] = 0,
                        !.curr_size = @ - 1]

\* LRUKReplacer::Size()
Size(r) == r.curr_size

\* ------------------------------------------------------------------ BufferPoolManager

\* The pool is one record; each public method is an operator from the pool
\* before the call to the pool after it and the value returned.  A method body
\* under std::scoped_lock(latch_) is one step.  Every disk request is scheduled
\* and waited for (future.get()) inside such a body, so at most one request is
\* outstanding and its effect on the disk is part of the step.

INVALID_PAGE_ID == -1

\* page_table_ has no entry for the page id.
NoFrame == -1

\* replacer_k the pool is constructed with.
ReplacerK == 2

\* The page ids the callers use.
PageIds == 0..(MaxPageId - 1)

\* The first bytes of a page: 0 for a zeroed page (ResetMemory, a page never
\* written to disk), 1 ("A") and 2 ("B") for bytes a caller wrote.
ZeroData == 0

CallerBytes == {1, 2}

\* Page(): page_id_ = INVALID_PAGE_ID, pin_count_ = 0, is_dirty_ = false, zeroed data.
Page == [page_id |-> INVALID_PAGE_ID, pin_count |-> 0, is_dirty |-> FALSE, data |-> ZeroData]

\* The sequence <<0, ..., n-1>>.
FramesUpTo(n) == [i \in 1..n |-> i - 1]

\* BufferPoolManager(pool_size, disk_manager, replacer_k) over a disk file of
\* the pages page_ids, all zeroed: every frame is on the free list.
PoolOver(page_ids, pool_size, replacer_k) ==
    [ pool_size    |-> pool_size,
      pages        |-> [f \in FrameIds(pool_size) |-> Page],
      page_table   |-> [p \in page_ids |-> NoFrame],
      free_list    |-> FramesUpTo(pool_size),
      replacer     |-> LRUKReplacer(pool_size, replacer_k),
      next_page_id |-> 0,
      disk         |-> [p \in page_ids |-> ZeroData] ]

\* BufferPoolManager(pool_size, disk_manager, replacer_k): every frame is on the
\* free list; disk is the content of the disk manager's file.
BufferPoolManager(pool_size, replacer_k) == PoolOver(PageIds, pool_size, replacer_k)

\* The page ids the callers of pool b use.
IdsOf(b) == DOMAIN b.page_table

\* page_table_.count(page_id) != 0
InPageTable(b, page_id) == page_id \in IdsOf(b) /\ b.page_table[page_id] # NoFrame

\* page_table_.erase(page_id)
PageTableErase(table, page_id) ==
    IF page_id \in DOMAIN table THEN [table EXCEPT ![page_id] = NoFrame] ELSE table

\* A write request through the disk scheduler, waited for: the disk manager
\* writes data at page_id (a page id outside the file fails in the disk manager).
DiskWrite(disk, page_id, data) ==
    IF page_id \in DOMAIN disk THEN [disk EXCEPT ![page_id] = data] ELSE disk

\* A read request through the disk scheduler, waited for.
DiskRead(disk, page_id) == IF page_id \in DOMAIN disk THEN disk[page_id] ELSE ZeroData

\* AcquireFrame that does not write a dirty victim back.
AcquireFrameNoWriteBack(b) ==
    IF b.free_list # <<>>
    THEN [ok |-> TRUE, frame_id |-> b.free_list[Len(b.free_list)],
          b |-> [b EXCEPT !.free_list = SubSeq(@, 1, Len(@) - 1)]]
    ELSE LET e == Evict(b.replacer) IN
         IF e.ret
         THEN [ok |-> TRUE, frame_id |-> e.frame_id,
               b |-> [b EXCEPT !.replacer = e.r,
                               !.page_table = PageTableErase(@, b.pages[e.frame_id].page_id)]]
         ELSE [ok |-> FALSE, frame_id |-> 0, b |-> b]

\* The frame NewPage and FetchPage take for a page that is not resident: the
\* back of the free list, else the replacer's victim, written back if dirty and
\* erased from the page table.  ok is FALSE where the code returns nullptr.
AcquireFrame(b) ==
    IF b.free_list # <<>>
    THEN [ok |-> TRUE, frame_id |-> b.free_list[Len(b.free_list)],
          b |-> [b EXCEPT !.free_list = SubSeq(@, 1, Len(@) - 1)]]
    ELSE LET e == Evict(b.replacer) IN
         IF e.ret
         THEN LET victim == b.pages[e.frame_id] IN
              [ok |-> TRUE, frame_id |-> e.frame_id,
               b |-> [b EXCEPT !.replacer = e.r,
                               !.disk = IF victim.is_dirty
                                        THEN DiskWrite(@, victim.page_id, victim.data)
                                        ELSE @,
                               !.page_table = PageTableErase(@, victim.page_id)]]
         ELSE [ok |-> FALSE, frame_id |-> 0, b |-> b]

\* NewPage that calls AllocatePage() before it looks for a frame.
NewPageAllocatesFirst(b) ==
    LET a == AcquireFrame(b) IN
    IF ~a.ok THEN [b |-> [b EXCEPT !.next_page_id = @ + 1], ok |-> FALSE,
                   frame_id |-> 0, page_id |-> INVALID_PAGE_ID]
    ELSE LET page_id == a.b.next_page_id
             f == a.frame_id
         IN  [b |-> [a.b EXCEPT
                       !.next_page_id = @ + 1,
                       !.pages[f] = [page_id |-> page_id, pin_count |-> 1,
                                     is_dirty |-> FALSE, data |-> ZeroData],
                       !.replacer = SetEvictable(RecordAccess(@, f), f, FALSE),
                       !.page_table[page_id] = f],
              ok |-> TRUE, frame_id |-> f, page_id |-> page_id]

\* BufferPoolManager::NewPage(&page_id): the pool after the call, the frame of
\* the page returned (ok is FALSE for nullptr) and *page_id.
NewPage(b) ==
    LET a == AcquireFrame(b) IN
    IF ~a.ok THEN [b |-> b, ok |-> FALSE, frame_id |-> 0, page_id |-> INVALID_PAGE_ID]
    ELSE LET page_id == a.b.next_page_id      \* AllocatePage()
             f == a.frame_id
         IN  [b |-> [a.b EXCEPT
                       !.next_page_id = @ + 1,
                       !.pages[f] = [page_id |-> page_id, pin_count |-> 1,
                                     is_dirty |-> FALSE, data |-> ZeroData],
                       !.replacer = SetEvictable(RecordAccess(@, f), f, FALSE),
                       !.page_table[page_id] = f],
              ok |-> TRUE, frame_id |-> f, page_id |-> page_id]

\* FetchPage whose hit path returns the frame without pinning it again.
FetchPageHitNoPin(b, page_id) ==
    IF InPageTable(b, page_id)
    THEN LET f == b.page_table[page_id] IN
         [b |-> [b EXCEPT !.replacer = SetEvictable(RecordAccess(@, f), f, FALSE)],
          ok |-> TRUE, frame_id |-> f]
    ELSE
    LET a == AcquireFrame(b) IN
    IF ~a.ok THEN [b |-> b, ok |-> FALSE, frame_id |-> 0]
    ELSE LET f == a.frame_id IN
         [b |-> [a.b EXCEPT
                   !.pages[f] = [page_id |-> page_id, pin_count |-> 1,
                                 is_dirty |-> FALSE, data |-> DiskRead(a.b.disk, page_id)],
                   !.replacer = SetEvictable(RecordAccess(@, f), f, FALSE),
                   !.page_table[page_id] = f],
          ok |-> TRUE, frame_id |-> f]

\* BufferPoolManager::FetchPage(page_id)
FetchPage(b, page_id) ==
    IF InPageTable(b, page_id)
    THEN LET f == b.page_table[page_id] IN
         [b |-> [b EXCEPT !.pages[f].pin_count = @ + 1,
                          !.replacer = SetEvictable(RecordAccess(@, f), f, FALSE)],
          ok |-> TRUE, frame_id |-> f]
    ELSE
    LET a == AcquireFrame(b) IN
    IF ~a.ok THEN [b |-> b, ok |-> FALSE, frame_id |-> 0]
    ELSE LET f == a.frame_id IN
         [b |-> [a.b EXCEPT
                   !.pages[f] = [page_id |-> page_id, pin_count |-> 1,
                                 is_dirty |-> FALSE, data |-> DiskRead(a.b.disk, page_id)],
                   !.replacer = SetEvictable(RecordAccess(@, f), f, FALSE),
                   !.page_table[page_id] = f],
          ok |-> TRUE, frame_id |-> f]

\* BufferPoolManager::UnpinPage, the part under latch_ (the test of
\* page_table_.count(page_id) before it is UnpinCheck below).
\* page_table_[page_id] creates the entry page_id -> 0 when there is none.
UnpinLocked(b, page_id, is_dirty) ==
    LET table == IF b.page_table[page_id] = NoFrame
                 THEN [b.page_table EXCEPT ![page_id] = 0]
                 ELSE b.page_table
        f == table[page_id]
        b1 == [b EXCEPT !.page_table = table]
    IN  IF b1.pages[f].pin_count <= 0 THEN [b |-> b1, ret |-> FALSE]
        ELSE LET pin == b1.pages[f].pin_count - 1 IN
             [b |-> [b1 EXCEPT
                       !.pages[f].pin_count = pin,
                       !.pages[f].is_dirty = (@ \/ is_dirty),
                       !.replacer = IF pin <= 0 THEN SetEvictable(@, f, TRUE) ELSE @],
              ret |-> TRUE]

\* BufferPoolManager::FlushPage(page_id)
FlushPage(b, page_id) ==
    IF page_id = INVALID_PAGE_ID THEN [b |-> b, ret |-> FALSE]
    ELSE IF ~InPageTable(b, page_id) THEN [b |-> b, ret |-> FALSE]
    ELSE LET f == b.page_table[page_id] IN
         [b |-> [b EXCEPT !.disk = DiskWrite(@, b.pages[f].page_id, b.pages[f].data),
                          !.pages[f].is_dirty = FALSE],
          ret |-> TRUE]

\* BufferPoolManager::DeletePage(page_id)
DeletePage(b, page_id) ==
    IF ~InPageTable(b, page_id) THEN [b |-> b, ret |-> TRUE]
    ELSE LET f == b.page_table[page_id] IN
         IF b.pages[f].pin_count > 0 THEN [b |-> b, ret |-> FALSE]
         ELSE [b |-> [b EXCEPT !.replacer = ReplacerRemove(@, f),
                               !.page_table = PageTableErase(@, page_id),
                               !.free_list = Append(@, f),
                               !.pages[f] = Page],
               ret |-> TRUE]

\* ------------------------------------------------------------------ the Trie's caller

NoTrieOp == [op |-> "none", base |-> 0, key |-> <<>>, type |-> "none", value |-> 0]

\* repl_op after an Evict: the value returned, *frame_id and the access count
\* that frame had; NoReplOp after any other call.
NoReplOp == [op |-> "none", ret |-> FALSE, frame_id |-> 0, count |-> 0]

\* The values of k the replacer is constructed with.
ReplacerKs == {1, 2, 3}

\* The number of requests the callers of the scheduler make.
MaxRequests == 3

\* The ids of the requests, in the order they are made (the identity of the
\* promise each request carries).
RequestIds == 1..MaxRequests

\* std::nullopt in the request queue.
NullOpt == [has_value |-> FALSE, id |-> 0, is_write |-> FALSE, page_id |-> 0, data |-> 0]

\* The page ids of disk requests.
DiskPageIds == {0, 1}

\* std::make_optional<DiskRequest>({is_write, data, page_id, promise}); id
\* names the promise.
DiskRequest(id, is_write, data, page_id) ==
    [has_value |-> TRUE, id |-> id, is_write |-> is_write, page_id |-> page_id, data |-> data]

\* DiskScheduler::DiskScheduler: the queue is empty and the background thread
\* has started.
DiskSchedulerStart ==
    /\ request_queue = <<>>
    /\ worker_pc = "get"
    /\ request = NullOpt
    /\ disk_log = <<>>
    /\ scheduled = <<>>
    /\ fulfilled = [id \in RequestIds |-> 0]
    /\ dtor_pc = "alive"
    /\ dtor_backlog = 0

\* The number of guard variables of the caller.
MaxGuards == 3

GuardSlots == 1..MaxGuards

\* The kinds of guard: BasicPageGuard, ReadPageGuard, WritePageGuard.
GuardKinds == {"basic", "read", "write"}

\* page_ == nullptr
NullPage == 0

\* A BasicPageGuard that holds nothing: bpm_ and page_ are nullptr.
InertGuard == [bpm_ |-> FALSE, page_ |-> NullPage, is_dirty_ |-> FALSE]

\* A guard variable before its object is constructed ("none"); "live" while the
\* object exists, "gone" after its destructor.  guard_ is the BasicPageGuard
\* (the object itself for kind "basic", the member guard_ otherwise).
NoGuard == [state |-> "none", kind |-> "basic", guard_ |-> InertGuard]

GuardsStart ==
    /\ guards = [v \in GuardSlots |-> NoGuard]
    /\ guard_calls = <<>>
    /\ guard_pins = <<>>

\* The number of calls each thread makes to the pool and its guards.
MaxLatchCalls == 2

\* A thread that is in no pool method, with left calls to make.
NoCall(left) ==
    [pc |-> "idle", op |-> "none", page_id |-> 0, is_dirty |-> FALSE, io |-> 0,
     left |-> left]

\* A thread that holds no guard.
NoGuardHeld == [kind |-> "none", frame_id |-> 0]

LatchesStart ==
    /\ latch_ = 0
    /\ rw_latch = [f \in 0..(PoolSize - 1) |-> [readers |-> {}, writer |-> 0]]
    /\ in_call = [t \in {1, 2} |-> NoCall(MaxLatchCalls)]
    /\ held = [t \in {1, 2} |-> NoGuardHeld]

OtherStart == DiskSchedulerStart /\ GuardsStart /\ LatchesStart

TrieStart ==
    /\ nodes = <<>>
    /\ tries = <<Null>>
    /\ trie_from = <<0>>
    /\ trie_op = NoTrieOp

ReplacerStart(k) ==
    /\ replacer = LRUKReplacer(NumFrames, k)
    /\ repl_first = <<>>
    /\ repl_last = <<>>
    /\ repl_op = NoReplOp

\* The threads that call into the buffer pool.
Threads == {1, 2}

\* scn_step when the calls made are not a prefix of the scenario.
OffScript == -1

\* written[p] when no caller has written to page p.
NoBytes == -1

\* loop_left of a thread that is not in the fetch/unpin loop.
NotLooping == -1

\* The threads are outside the pool, which is b; each has left calls of its
\* loop to make.
PoolStartWith(b, step, left) ==
    /\ bpm = b
    /\ pool_pc = [t \in Threads |-> "idle"]
    /\ pool_arg = [t \in Threads |-> 0]
    /\ pt_writer = 0
    /\ written = [p \in IdsOf(b) |-> NoBytes]
    /\ covered = [p \in IdsOf(b) |-> FALSE]
    /\ scn_step = step
    /\ loop_left = [t \in Threads |-> left]
    /\ holds = [t \in Threads |-> 0]

PoolStart == PoolStartWith(BufferPoolManager(PoolSize, ReplacerK), OffScript, NotLooping)

InitTrie ==
    /\ TrieStart
    /\ OtherStart
    /\ ReplacerStart(2)
    /\ PoolStart
    /\ crashed = FALSE

\* tries[i].Put<T>(key, value): the caller keeps the trie returned as a new handle.
TriePut(i, key, T, value) ==
    /\ ~crashed
    /\ Len(tries) < MaxTries
    /\ LET r == Put(nodes, tries[i], key, T, value) IN
       /\ nodes' = r.heap
       /\ tries' = Append(tries, r.root)
    /\ trie_from' = Append(trie_from, i)
    /\ trie_op' = [op |-> "put", base |-> i, key |-> key, type |-> T, value |-> value]
    /\ UNCHANGED <<crashed, repl_vars, pool_vars, other_vars>>

\* tries[i].Remove(key)
TrieRemove(i, key) ==
    /\ ~crashed
    /\ Len(tries) < MaxTries
    /\ LET r == Remove(nodes, tries[i], key) IN
       /\ nodes' = r.heap
       /\ tries' = IF r.crash THEN tries ELSE Append(tries, r.root)
       /\ trie_from' = IF r.crash THEN trie_from ELSE Append(trie_from, i)
       /\ crashed' = r.crash
    /\ trie_op' = [op |-> "remove", base |-> i, key |-> key, type |-> "none", value |-> 0]
    /\ UNCHANGED <<repl_vars, pool_vars, other_vars>>

NextTrie ==
    \/ \E i \in 1..Len(tries), key \in Keys, tv \in PutValues :
           TriePut(i, key, tv[1], tv[2])
    \/ \E i \in 1..Len(tries), key \in Keys : TrieRemove(i, key)

SpecTrie == InitTrie /\ [][NextTrie]_vars

\* ------------------------------------------------------------------ the replacer's caller

InitReplacer ==
    /\ TrieStart
    /\ OtherStart
    /\ \E k \in ReplacerKs : ReplacerStart(k)
    /\ PoolStart
    /\ crashed = FALSE

\* The frames whose count_map_ entry exists.
Tracked(r) == {f \in FrameIds(r.replacer_size) : r.count_map[f] # 0}

\* The sequence without the elements outside keep.
RECURSIVE Restrict(_, _)
Restrict(seq, keep) ==
    IF seq = <<>> THEN <<>>
    ELSE IF Head(seq) \in keep THEN <<Head(seq)>> \o Restrict(Tail(seq), keep)
    ELSE Restrict(Tail(seq), keep)

\* The history after a call that took the replacer from r to r2 and, when
\* accessed is a frame id, recorded an access to it.  A frame with k accesses or
\* more has left repl_first for good; a frame with fewer is not yet in repl_last
\* (it enters at the end, with the access that is its k-th).
FirstAfter(r, r2, accessed) ==
    LET cold == {f \in Tracked(r2) : r2.count_map[f] < r2.k}
        kept == Restrict(repl_first, cold)
    IN  IF accessed \in cold /\ accessed \notin Tracked(r)
        THEN Append(kept, accessed) ELSE kept

LastAfter(r, r2, accessed) ==
    LET hot == {f \in Tracked(r2) : r2.count_map[f] >= r2.k}
    IN  IF accessed \in hot THEN Append(Restrict(repl_last, hot \ {accessed}), accessed)
        ELSE Restrict(repl_last, hot)

\* One call on the replacer: r2 is the replacer after it.  A call that ends the
\* process leaves the history as it was.
ReplacerCall(r2, accessed, op) ==
    /\ replacer' = r2
    /\ crashed' = (r2.fault # "none")
    /\ repl_first' = IF r2.fault # "none" THEN repl_first
                     ELSE FirstAfter(replacer, r2, accessed)
    /\ repl_last' = IF r2.fault # "none" THEN repl_last
                    ELSE LastAfter(replacer, r2, accessed)
    /\ repl_op' = op
    /\ UNCHANGED <<trie_vars, pool_vars, other_vars>>

\* replacer.RecordAccess(frame_id)
ReplRecordAccess(frame_id) ==
    /\ ~crashed
    /\ replacer.count_map[frame_id] < MaxAccessCount
    /\ ReplacerCall(RecordAccess(replacer, frame_id), frame_id, NoReplOp)

\* replacer.SetEvictable(frame_id, set_evictable)
ReplSetEvictable(frame_id, set_evictable) ==
    /\ ~crashed
    /\ ReplacerCall(SetEvictable(replacer, frame_id, set_evictable), -1,
                    NoReplOp)

\* replacer.Remove(frame_id)
ReplRemove(frame_id) ==
    /\ ~crashed
    /\ ReplacerCall(ReplacerRemove(replacer, frame_id), -1, NoReplOp)

\* replacer.Evict(&frame_id)
ReplEvict ==
    /\ ~crashed
    /\ LET e == Evict(replacer) IN
       ReplacerCall(e.r, -1,
                    [op |-> "evict", ret |-> e.ret, frame_id |-> e.frame_id,
                     count |-> IF e.ret THEN replacer.count_map[e.frame_id] ELSE 0])

NextReplacer ==
    \/ \E f \in FrameIds(NumFrames) : ReplRecordAccess(f)
    \/ \E f \in FrameIds(NumFrames), b \in BOOLEAN : ReplSetEvictable(f, b)
    \/ \E f \in FrameIds(NumFrames) : ReplRemove(f)
    \/ ReplEvict

SpecReplacer == InitReplacer /\ [][NextReplacer]_vars

\* ------------------------------------------------------------------ the buffer pool's callers

InitPool ==
    /\ TrieStart
    /\ OtherStart
    /\ ReplacerStart(2)
    /\ PoolStart
    /\ crashed = FALSE

\* A call as the caller makes it: arg is the bytes of a write, 1 or 0 for
\* is_dirty of an UnpinPage, 0 otherwise.
CallOf(op, page_id, arg) == [op |-> op, page_id |-> page_id, arg |-> arg]

\* The end-to-end scenario as a script: the step reached when call is made at
\* step.  Steps 0..6: NewPage; write "A" to page 0; UnpinPage(0, true); NewPage
\* three times.  From 6, FetchPage(0) leads to 7; UnpinPage of page 1, 2 or 3
\* leads to 8, and from there FetchPage(0) to 9.
ScriptStep(step, call) ==
    IF step \in {0, 3, 4, 5} /\ call.op = "new" THEN step + 1
    ELSE IF step = 1 /\ call = CallOf("write", 0, 1) THEN 2
    ELSE IF step = 2 /\ call = CallOf("unpin", 0, 1) THEN 3
    ELSE IF step = 6 /\ call = CallOf("fetch", 0, 0) THEN 7
    ELSE IF step = 6 /\ call.op = "unpin" /\ call.page_id \in {1, 2, 3} THEN 8
    ELSE IF step = 8 /\ call = CallOf("fetch", 0, 0) THEN 9
    ELSE OffScript

\* written after a call that took the pool to b2: bytes that were written to a
\* page and not yet covered by an UnpinPage(id, true) are forgotten when the
\* page leaves the pool.
WrittenAfter(b2) ==
    [p \in IdsOf(bpm) |->
        IF ~covered[p] /\ InPageTable(bpm, p) /\ ~InPageTable(b2, p)
        THEN NoBytes ELSE written[p]]

\* A call has returned: one step further in the script, or off it.
Returned(call) == scn_step' = ScriptStep(scn_step, call)

\* Thread t is in the fetch/unpin loop.
Looping(t) == loop_left[t] # NotLooping

\* A call of thread t has returned; gained is the pins the thread has gained by
\* it (1, 0 or -1).
LoopCall(t, gained) ==
    IF Looping(t)
    THEN /\ loop_left' = [loop_left EXCEPT ![t] = @ - 1]
         /\ holds' = [holds EXCEPT ![t] = @ + gained]
    ELSE UNCHANGED <<loop_left, holds>>

\* The call of thread t under latch_ took the pool from bpm to b2.
PoolCall(t, b2) ==
    /\ bpm' = b2
    /\ pt_writer' = IF b2.page_table # bpm.page_table THEN t ELSE 0
    /\ crashed' = (b2.replacer.fault # "none")
    /\ UNCHANGED <<trie_vars, repl_vars, other_vars>>

\* No access count, no pin count and no free list of the pool is above its bound.
WithinBounds(b) ==
    /\ Len(b.free_list) <= MaxFreeList
    /\ \A f \in FrameIds(b.pool_size) :
          /\ b.replacer.count_map[f] <= MaxPoolAccess
          /\ b.pages[f].pin_count <= MaxPin

\* Thread t calls NewPage.
PoolNewPage(t) ==
    /\ ~crashed
    /\ pool_pc[t] = "idle"
    /\ bpm.next_page_id \in IdsOf(bpm)
    /\ LET r == NewPage(bpm) IN
       /\ WithinBounds(r.b)
       /\ PoolCall(t, r.b)
       /\ written' = WrittenAfter(r.b)
    /\ Returned(CallOf("new", INVALID_PAGE_ID, 0))
    /\ UNCHANGED <<pool_pc, pool_arg, covered, loop_left, holds>>

\* Thread t calls FetchPage(page_id).
PoolFetchPage(t, page_id) ==
    /\ ~crashed
    /\ pool_pc[t] = "idle"
    /\ LET r == FetchPage(bpm, page_id) IN
       /\ Looping(t) \/ WithinBounds(r.b)
       /\ PoolCall(t, r.b)
       /\ written' = WrittenAfter(r.b)
       /\ LoopCall(t, IF r.ok THEN 1 ELSE 0)
    /\ Returned(CallOf("fetch", page_id, 0))
    /\ UNCHANGED <<pool_pc, pool_arg, covered>>

\* What page_table_.count(page_id) != 0 can yield for thread t, which does not
\* hold latch_.  A test that overlaps another thread's write of page_table_ is
\* a data race on the hash table: besides the answer of the table as written,
\* the lookup can miss an entry that is being moved, or fault on memory the
\* writer has released.
CountOutcomes(t, page_id) ==
    LET answer == IF InPageTable(bpm, page_id) THEN "found" ELSE "absent" IN
    IF pt_writer \notin {0, t} THEN {answer, "absent", "fault"} ELSE {answer}

\* Thread t calls UnpinPage(page_id, _) and tests page_table_.count(page_id):
\* it returns false when the test finds no entry, and goes on to take latch_
\* otherwise.
PoolUnpinCheck(t, page_id) ==
    /\ ~crashed
    /\ pool_pc[t] = "idle"
    /\ \E out \in CountOutcomes(t, page_id) :
          /\ pool_pc' = [pool_pc EXCEPT ![t] = IF out = "found" THEN "unpin" ELSE "idle"]
          /\ pool_arg' = [pool_arg EXCEPT ![t] = IF out = "found" THEN page_id ELSE 0]
          /\ crashed' = (out = "fault")
          /\ IF out = "found" THEN UNCHANGED <<scn_step, loop_left, holds>>
             ELSE Returned(CallOf("unpin", page_id, 0)) /\ LoopCall(t, 0)
    /\ pt_writer' = 0
    /\ UNCHANGED <<bpm, written, covered, trie_vars, repl_vars, other_vars>>

\* Thread t, past the test, takes latch_ and runs the rest of
\* UnpinPage(page_id, is_dirty).
PoolUnpinLocked(t, is_dirty) ==
    /\ ~crashed
    /\ pool_pc[t] = "unpin"
    /\ LET r == UnpinLocked(bpm, pool_arg[t], is_dirty) IN
       /\ PoolCall(t, r.b)
       /\ covered' = IF r.ret /\ is_dirty /\ written[pool_arg[t]] # NoBytes
                     THEN [covered EXCEPT ![pool_arg[t]] = TRUE]
                     ELSE covered
       /\ LoopCall(t, IF r.ret THEN -1 ELSE 0)
    /\ Returned(CallOf("unpin", pool_arg[t], IF is_dirty THEN 1 ELSE 0))
    /\ pool_pc' = [pool_pc EXCEPT ![t] = "idle"]
    /\ pool_arg' = [pool_arg EXCEPT ![t] = 0]
    /\ UNCHANGED written

\* Thread t calls FlushPage(page_id).
PoolFlushPage(t, page_id) ==
    /\ ~crashed
    /\ pool_pc[t] = "idle"
    /\ PoolCall(t, FlushPage(bpm, page_id).b)
    /\ Returned(CallOf("flush", page_id, 0))
    /\ UNCHANGED <<pool_pc, pool_arg, written, covered, loop_left, holds>>

\* Thread t calls DeletePage(page_id).
PoolDeletePage(t, page_id) ==
    /\ ~crashed
    /\ pool_pc[t] = "idle"
    /\ LET r == DeletePage(bpm, page_id) IN
       /\ WithinBounds(r.b)
       /\ PoolCall(t, r.b)
       /\ written' = IF r.b # bpm THEN [written EXCEPT ![page_id] = NoBytes] ELSE written
       /\ covered' = IF r.b # bpm THEN [covered EXCEPT ![page_id] = FALSE] ELSE covered
    /\ Returned(CallOf("delete", page_id, 0))
    /\ UNCHANGED <<pool_pc, pool_arg, loop_left, holds>>

\* Thread t, which holds a pin on frame frame_id (the Page* a NewPage or
\* FetchPage returned), writes bytes into the page's data.
PoolWriteData(t, frame_id, bytes) ==
    /\ ~crashed
    /\ pool_pc[t] = "idle"
    /\ bpm.pages[frame_id].pin_count > 0
    /\ LET page_id == bpm.pages[frame_id].page_id IN
       /\ bpm' = [bpm EXCEPT !.pages[frame_id].data = bytes]
       /\ written' = IF page_id \in IdsOf(bpm)
                     THEN [written EXCEPT ![page_id] = bytes] ELSE written
       /\ covered' = IF page_id \in IdsOf(bpm)
                     THEN [covered EXCEPT ![page_id] = FALSE] ELSE covered
       /\ Returned(CallOf("write", page_id, bytes))
    /\ pt_writer' = 0
    /\ UNCHANGED <<pool_pc, pool_arg, loop_left, holds, crashed, trie_vars, repl_vars,
                   other_vars>>

PoolThread(t) ==
    \/ PoolNewPage(t)
    \/ \E p \in IdsOf(bpm) : PoolFetchPage(t, p)
    \/ \E p \in IdsOf(bpm) : PoolUnpinCheck(t, p)
    \/ \E d \in BOOLEAN : PoolUnpinLocked(t, d)
    \/ \E p \in IdsOf(bpm) : PoolFlushPage(t, p)
    \/ \E p \in IdsOf(bpm) : PoolDeletePage(t, p)

NextPool == \E t \in Threads : PoolThread(t)

\* The calls of any number of threads, interleaved.
SpecPool == InitPool /\ [][NextPool]_vars

\* The calls of one thread: no two calls overlap.
NextPoolSeq == PoolThread(1)

SpecPoolSeq == InitPool /\ [][NextPoolSeq]_vars

\* The calls of one thread that also writes into the pages it has pinned.
NextPoolData ==
    \/ PoolThread(1)
    \/ \E f \in FrameIds(bpm.pool_size), v \in CallerBytes : PoolWriteData(1, f, v)

\* The pool that thread works on: its page ids and its size.
DataPageIds == {0, 1}

InitPoolData ==
    /\ TrieStart
    /\ OtherStart
    /\ ReplacerStart(2)
    /\ PoolStartWith(PoolOver(DataPageIds, DataPoolSize, ReplacerK), OffScript, NotLooping)
    /\ crashed = FALSE

SpecPoolData == InitPoolData /\ [][NextPoolData]_vars

\* The page every looping thread fetches and unpins.
LoopPage == 0

InitLoop ==
    /\ TrieStart
    /\ OtherStart
    /\ ReplacerStart(2)
    /\ PoolStartWith(BufferPoolManager(PoolSize, ReplacerK), OffScript, 2 * LoopRounds)
    /\ crashed = FALSE

\* Each thread runs FetchPage(LoopPage); UnpinPage(LoopPage, _) LoopRounds
\* times: with an even number of calls left it fetches, with an odd number it
\* unpins.
NextLoop ==
    \E t \in Threads :
        \/ loop_left[t] > 0 /\ loop_left[t] % 2 = 0 /\ PoolFetchPage(t, LoopPage)
        \/ loop_left[t] % 2 = 1 /\ PoolUnpinCheck(t, LoopPage)
        \/ \E d \in BOOLEAN : PoolUnpinLocked(t, d)

SpecLoop == InitLoop /\ [][NextLoop]_vars

\* The pool of the end-to-end scenario: pool_size = 3, k = 2, a zeroed disk;
\* NewPage allocates the page ids 0..3.
ScenarioPoolSize == 3

ScenarioPageIds == 0..3

InitScenario ==
    /\ TrieStart
    /\ OtherStart
    /\ ReplacerStart(2)
    /\ PoolStartWith(PoolOver(ScenarioPageIds, ScenarioPoolSize, ReplacerK), 0, NotLooping)
    /\ crashed = FALSE

\* One thread makes the calls of the scenario on that pool, or departs from it
\* with one call of any kind.
NextScenario ==
    \/ scn_step # OffScript /\ PoolNewPage(1)
    \/ \E p \in IdsOf(bpm) : scn_step # OffScript /\ PoolFetchPage(1, p)
    \/ \E p \in IdsOf(bpm) : scn_step # OffScript /\ PoolUnpinCheck(1, p)
    \/ \E d \in BOOLEAN : scn_step # OffScript /\ PoolUnpinLocked(1, d)
    \/ \E p \in IdsOf(bpm) : scn_step # OffScript /\ PoolFlushPage(1, p)
    \/ \E p \in IdsOf(bpm) : scn_step # OffScript /\ PoolDeletePage(1, p)
    \/ \E f \in FrameIds(bpm.pool_size), v \in CallerBytes :
           scn_step # OffScript /\ PoolWriteData(1, f, v)

SpecScenario == InitScenario /\ [][NextScenario]_vars

\* ------------------------------------------------------------------ DiskScheduler

\* Channel::Put(element): the element goes to the back of the queue.
ChannelPut(queue, element) == Append(queue, element)

\* Channel::Get(): blocks while the queue is empty, then takes the front.
ChannelGet(queue) == [element |-> Head(queue), queue |-> Tail(queue)]

\* The requests of scheduled whose promise is not set.
Unfulfilled == {i \in 1..Len(scheduled) : fulfilled[scheduled[i].id] = 0}

InitDisk ==
    /\ TrieStart
    /\ OtherStart
    /\ ReplacerStart(2)
    /\ PoolStart
    /\ crashed = FALSE

\* DiskScheduler::Schedule(r), called by a thread before the destructor runs.
Schedule(is_write, data, page_id) ==
    /\ dtor_pc = "alive"
    /\ Len(scheduled) < MaxRequests
    /\ LET r == DiskRequest(Len(scheduled) + 1, is_write, data, page_id) IN
       /\ request_queue' = ChannelPut(request_queue, r)
       /\ scheduled' = Append(scheduled, r)
    /\ UNCHANGED <<worker_pc, request, disk_log, fulfilled, dtor_pc, dtor_backlog>>
    /\ UNCHANGED <<trie_vars, repl_vars, pool_vars, guard_vars, latch_vars, crashed>>

\* StartWorkerThread: request = request_queue_.Get(), then the test
\* request.has_value() of the while loop.
WorkerGet ==
    /\ worker_pc = "get"
    /\ request_queue # <<>>
    /\ LET g == ChannelGet(request_queue) IN
       /\ request' = g.element
       /\ request_queue' = g.queue
       /\ worker_pc' = IF g.element.has_value THEN "perform" ELSE "exited"
    /\ UNCHANGED <<disk_log, scheduled, fulfilled, dtor_pc, dtor_backlog>>
    /\ UNCHANGED <<trie_vars, repl_vars, pool_vars, guard_vars, latch_vars, crashed>>

\* StartWorkerThread that skips the call of the disk manager.
WorkerPerformNoDiskCall ==
    /\ worker_pc = "perform"
    /\ worker_pc' = "fulfil"
    /\ UNCHANGED <<request_queue, request, disk_log, scheduled, fulfilled, dtor_pc,
                   dtor_backlog>>
    /\ UNCHANGED <<trie_vars, repl_vars, pool_vars, guard_vars, latch_vars, crashed>>

\* StartWorkerThread: disk_manager_->WritePage or ReadPage for request.
WorkerPerform ==
    /\ worker_pc = "perform"
    /\ disk_log' = Append(disk_log, request)
    /\ worker_pc' = "fulfil"
    /\ UNCHANGED <<request_queue, request, scheduled, fulfilled, dtor_pc, dtor_backlog>>
    /\ UNCHANGED <<trie_vars, repl_vars, pool_vars, guard_vars, latch_vars, crashed>>

\* StartWorkerThread: request->callback_.set_value(true), then back to the
\* head of the loop.
WorkerFulfil ==
    /\ worker_pc = "fulfil"
    /\ fulfilled' = [fulfilled EXCEPT ![request.id] = @ + 1]
    /\ worker_pc' = "get"
    /\ UNCHANGED <<request_queue, request, disk_log, scheduled, dtor_pc, dtor_backlog>>
    /\ UNCHANGED <<trie_vars, repl_vars, pool_vars, guard_vars, latch_vars, crashed>>

\* ~DiskScheduler that does not put std::nullopt in the queue.
DestroyNoSentinel ==
    /\ dtor_pc = "alive"
    /\ dtor_pc' = "join"
    /\ dtor_backlog' = Cardinality(Unfulfilled)
    /\ UNCHANGED <<request_queue, worker_pc, request, disk_log, scheduled, fulfilled>>
    /\ UNCHANGED <<trie_vars, repl_vars, pool_vars, guard_vars, latch_vars, crashed>>

\* ~DiskScheduler: request_queue_.Put(std::nullopt).
Destroy ==
    /\ dtor_pc = "alive"
    /\ request_queue' = ChannelPut(request_queue, NullOpt)
    /\ dtor_pc' = "join"
    /\ dtor_backlog' = Cardinality(Unfulfilled)
    /\ UNCHANGED <<worker_pc, request, disk_log, scheduled, fulfilled>>
    /\ UNCHANGED <<trie_vars, repl_vars, pool_vars, guard_vars, latch_vars, crashed>>

\* ~DiskScheduler: background_thread_->join() returns once the thread has
\* left StartWorkerThread.
Join ==
    /\ dtor_pc = "join"
    /\ worker_pc = "exited"
    /\ dtor_pc' = "done"
    /\ UNCHANGED <<request_queue, worker_pc, request, disk_log, scheduled, fulfilled,
                   dtor_backlog>>
    /\ UNCHANGED <<trie_vars, repl_vars, pool_vars, guard_vars, latch_vars, crashed>>

\* The steps of the background thread.
Worker == WorkerGet \/ WorkerPerform \/ WorkerFulfil

NextDisk ==
    \/ \E page_id \in DiskPageIds : Schedule(FALSE, ZeroData, page_id)
    \/ \E page_id \in DiskPageIds, data \in CallerBytes : Schedule(TRUE, data, page_id)
    \/ WorkerGet
    \/ WorkerPerform
    \/ WorkerFulfil
    \/ Destroy
    \/ Join

SpecDisk == InitDisk /\ [][NextDisk]_vars

\* The operating system runs the background thread whenever it can take a step,
\* and join returns once the thread has ended.
SpecDiskFair == SpecDisk /\ WF_vars(Worker) /\ WF_vars(Join)

\* ------------------------------------------------------------------ Page guards

\* A call a guard makes: page->RUnlatch(), page->WUnlatch() or
\* bpm->UnpinPage(page->GetPageId(), is_dirty).  page names the pin the guarded
\* fetch took.
GuardCall(op, page, is_dirty) == [op |-> op, page |-> page, is_dirty |-> is_dirty]

\* BasicPageGuard(bpm, page), as FetchPageBasic / NewPageGuarded build it.
BasicPageGuard(page) == [bpm_ |-> TRUE, page_ |-> page, is_dirty_ |-> FALSE]

\* BasicPageGuard::Drop()
BasicDrop(g) ==
    [g |-> [g EXCEPT !.bpm_ = FALSE, !.page_ = NullPage],
     calls |-> IF g.bpm_ /\ g.page_ # NullPage
               THEN <<GuardCall("UnpinPage", g.page_, g.is_dirty_)>>
               ELSE <<>>]

\* BasicPageGuard::BasicPageGuard(BasicPageGuard &&that)
BasicMoveConstruct(that) ==
    [this |-> [bpm_ |-> that.bpm_, page_ |-> that.page_, is_dirty_ |-> that.is_dirty_],
     that |-> [that EXCEPT !.bpm_ = FALSE, !.page_ = NullPage]]

\* operator= that takes over that's page without dropping its own.
BasicMoveAssignNoDrop(this, that, self) ==
    LET from == IF self THEN this ELSE that IN
    [this |-> IF self THEN [this EXCEPT !.bpm_ = FALSE, !.page_ = NullPage]
              ELSE [bpm_ |-> from.bpm_, page_ |-> from.page_, is_dirty_ |-> from.is_dirty_],
     that |-> [from EXCEPT !.bpm_ = FALSE, !.page_ = NullPage],
     calls |-> <<>>]

\* BasicPageGuard::operator=(BasicPageGuard &&that); self says that is *this.
\* After Drop() the fields of that are read, which are the dropped fields of
\* this when self.
BasicMoveAssign(this, that, self) ==
    LET d == BasicDrop(this)
        from == IF self THEN d.g ELSE that
    IN  [this |-> IF self THEN [d.g EXCEPT !.bpm_ = FALSE, !.page_ = NullPage]
                  ELSE [bpm_ |-> from.bpm_, page_ |-> from.page_,
                        is_dirty_ |-> from.is_dirty_],
         that |-> [from EXCEPT !.bpm_ = FALSE, !.page_ = NullPage],
         calls |-> d.calls]

\* ReadPageGuard::Drop() and WritePageGuard::Drop() on the member guard_ g.
LatchedDrop(kind, g) ==
    LET unlatch == IF g.page_ # NullPage
                   THEN <<GuardCall(IF kind = "read" THEN "RUnlatch" ELSE "WUnlatch",
                                    g.page_, FALSE)>>
                   ELSE <<>>
        d == BasicDrop(IF kind = "write" THEN [g EXCEPT !.is_dirty_ = TRUE] ELSE g)
    IN  [g |-> d.g, calls |-> unlatch \o d.calls]

\* Drop() of a guard of this kind.
Drop(kind, g) == IF kind = "basic" THEN BasicDrop(g) ELSE LatchedDrop(kind, g)

\* The move constructor of a guard of this kind: ReadPageGuard and
\* WritePageGuard move-assign into their default-constructed member guard_.
MoveConstruct(kind, that) ==
    IF kind = "basic"
    THEN LET c == BasicMoveConstruct(that) IN [this |-> c.this, that |-> c.that, calls |-> <<>>]
    ELSE BasicMoveAssign(InertGuard, that, FALSE)

\* operator=(that) of a guard of this kind: ReadPageGuard and WritePageGuard
\* call their own Drop() and then move-assign the member guard_.
MoveAssign(kind, this, that, self) ==
    IF kind = "basic" THEN BasicMoveAssign(this, that, self)
    ELSE LET d == LatchedDrop(kind, this)
             a == BasicMoveAssign(d.g, that, self)
         IN  [this |-> a.this, that |-> a.that, calls |-> d.calls \o a.calls]

\* The destructor of a guard of this kind: Drop(), and for ReadPageGuard and
\* WritePageGuard the destructor of the member guard_ after it.
Destruct(kind, g) ==
    IF kind = "basic" THEN BasicDrop(g)
    ELSE LET d == LatchedDrop(kind, g)
             m == BasicDrop(d.g)
         IN  [g |-> m.g, calls |-> d.calls \o m.calls]

InitGuard ==
    /\ TrieStart
    /\ OtherStart
    /\ ReplacerStart(2)
    /\ PoolStart
    /\ crashed = FALSE

\* The guard objects change and make calls; nothing else does.
GuardStep(new_guards, calls) ==
    /\ guards' = new_guards
    /\ guard_calls' = guard_calls \o calls
    /\ UNCHANGED <<sched_vars, latch_vars, trie_vars, repl_vars, pool_vars, crashed>>

\* FetchPageBasic / FetchPageRead / FetchPageWrite / NewPageGuarded into the
\* variable v; ok is FALSE when FetchPage / NewPage returned nullptr.
GuardFetch(v, kind, ok) ==
    /\ guards[v].state = "none"
    /\ LET page == IF ok THEN Len(guard_pins) + 1 ELSE NullPage IN
       /\ GuardStep([guards EXCEPT ![v] = [state |-> "live", kind |-> kind,
                                           guard_ |-> BasicPageGuard(page)]], <<>>)
       /\ guard_pins' = IF ok THEN Append(guard_pins, kind) ELSE guard_pins

\* The variable v is move-constructed from the guard in w.
GuardMoveConstruct(v, w) ==
    /\ guards[v].state = "none"
    /\ guards[w].state = "live"
    /\ LET kind == guards[w].kind
           c == MoveConstruct(kind, guards[w].guard_)
       IN  GuardStep([guards EXCEPT
                        ![v] = [state |-> "live", kind |-> kind, guard_ |-> c.this],
                        ![w].guard_ = c.that], c.calls)
    /\ UNCHANGED guard_pins

\* guards[v] = std::move(guards[w]); v = w is the self-move-assignment.
GuardMoveAssign(v, w) ==
    /\ guards[v].state = "live"
    /\ guards[w].state = "live"
    /\ guards[v].kind = guards[w].kind
    /\ LET a == MoveAssign(guards[v].kind, guards[v].guard_, guards[w].guard_, v = w) IN
       GuardStep(IF v = w THEN [guards EXCEPT ![v].guard_ = a.this]
                 ELSE [guards EXCEPT ![v].guard_ = a.this, ![w].guard_ = a.that], a.calls)
    /\ UNCHANGED guard_pins

\* guards[v].Drop()
GuardDrop(v) ==
    /\ guards[v].state = "live"
    /\ LET d == Drop(guards[v].kind, guards[v].guard_) IN
       GuardStep([guards EXCEPT ![v].guard_ = d.g], d.calls)
    /\ UNCHANGED guard_pins

\* The guard in v goes out of scope.
GuardDestruct(v) ==
    /\ guards[v].state = "live"
    /\ LET d == Destruct(guards[v].kind, guards[v].guard_) IN
       GuardStep([guards EXCEPT ![v].guard_ = d.g, ![v].state = "gone"], d.calls)
    /\ UNCHANGED guard_pins

NextGuard ==
    \/ \E v \in GuardSlots, kind \in GuardKinds, ok \in BOOLEAN : GuardFetch(v, kind, ok)
    \/ \E v, w \in GuardSlots : GuardMoveConstruct(v, w)
    \/ \E v, w \in GuardSlots : GuardMoveAssign(v, w)
    \/ \E v \in GuardSlots : GuardDrop(v)
    \/ \E v \in GuardSlots : GuardDestruct(v)

SpecGuard == InitGuard /\ [][NextGuard]_vars

\* ------------------------------------------------------------------ Latches

InitLatch ==
    /\ TrieStart
    /\ OtherStart
    /\ ReplacerStart(2)
    /\ PoolStart
    /\ crashed = FALSE

\* The disk requests a pool method schedules and waits for, one after the
\* other, when it runs on pool b: the write-back of a dirty victim, the read of
\* a page that is fetched, the write of a page that is flushed.
IoRequests(b, op, page_id) ==
    LET a == AcquireFrame(b)
        victim == b.pages[a.frame_id]
        write_back == IF b.free_list = <<>> /\ a.ok /\ victim.is_dirty
                      THEN <<DiskRequest(1, TRUE, victim.data, victim.page_id)>>
                      ELSE <<>>
    IN  CASE op = "new" -> write_back
          [] op \in {"read", "write"} ->
                IF InPageTable(b, page_id) THEN <<>>
                ELSE IF a.ok THEN write_back \o <<DiskRequest(1, FALSE, ZeroData, page_id)>>
                ELSE <<>>
          [] op = "flush" ->
                IF InPageTable(b, page_id)
                THEN LET f == b.page_table[page_id] IN
                     <<DiskRequest(1, TRUE, b.pages[f].data, b.pages[f].page_id)>>
                ELSE <<>>
          [] OTHER -> <<>>

\* What the part under latch_ of the method thread t is in does to the pool:
\* the pool after it, and the frame of the page it returns (NoFrame: none).
BodyOf(t) ==
    LET c == in_call[t] IN
    CASE c.op = "new" ->
            LET r == NewPage(bpm) IN
            [b |-> r.b, frame_id |-> IF r.ok THEN r.frame_id ELSE NoFrame]
      [] c.op \in {"read", "write"} ->
            LET r == FetchPage(bpm, c.page_id) IN
            [b |-> r.b, frame_id |-> IF r.ok THEN r.frame_id ELSE NoFrame]
      [] c.op = "unpin" ->
            [b |-> UnpinLocked(bpm, c.page_id, c.is_dirty).b, frame_id |-> NoFrame]
      [] c.op = "flush" -> [b |-> FlushPage(bpm, c.page_id).b, frame_id |-> NoFrame]
      [] c.op = "delete" -> [b |-> DeletePage(bpm, c.page_id).b, frame_id |-> NoFrame]

\* Only the threads' calls, the latches and the pool change.
LatchStep ==
    /\ UNCHANGED <<pool_pc, pool_arg, pt_writer, caller_vars, guard_vars>>
    /\ UNCHANGED <<trie_vars, repl_vars>>

\* The scheduler is left alone.
NoIo == UNCHANGED sched_vars

\* Thread t calls NewPageGuarded, FetchPageRead(page_id), FetchPageWrite(page_id),
\* FlushPage(page_id) or DeletePage(page_id): the method goes for latch_.
CallLocked(t, op, page_id) ==
    /\ ~crashed
    /\ in_call[t].pc = "idle" /\ in_call[t].left > 0
    /\ op \in {"new", "read", "write"} => held[t].kind = "none"
    /\ op = "new" => bpm.next_page_id \in IdsOf(bpm)
    /\ in_call' = [in_call EXCEPT ![t] = [pc |-> "lock", op |-> op, page_id |-> page_id,
                                     is_dirty |-> FALSE, io |-> 0, left |-> @.left - 1]]
    /\ UNCHANGED <<bpm, latch_, rw_latch, held, crashed>>
    /\ NoIo /\ LatchStep

\* Thread t drops its guard: RUnlatch / WUnlatch, then the call of
\* UnpinPage(page_->GetPageId(), is_dirty_).
CallDrop(t) ==
    /\ ~crashed
    /\ in_call[t].pc = "idle" /\ in_call[t].left > 0
    /\ held[t].kind # "none"
    /\ LET f == held[t].frame_id IN
       /\ rw_latch' = [rw_latch EXCEPT ![f].readers = @ \ {t},
                                        ![f].writer = IF @ = t THEN 0 ELSE @]
       /\ in_call' = [in_call EXCEPT ![t] = [pc |-> "check", op |-> "unpin",
                                        page_id |-> bpm.pages[f].page_id,
                                        is_dirty |-> (held[t].kind = "write"),
                                        io |-> 0, left |-> @.left - 1]]
    /\ held' = [held EXCEPT ![t] = NoGuardHeld]
    /\ UNCHANGED <<bpm, latch_, crashed>>
    /\ NoIo /\ LatchStep

\* Another thread is under latch_ in a method that writes page_table_.
WriterBeside(t) ==
    \E h \in Threads \ {t} :
        latch_ = h /\ in_call[h].pc = "body" /\ BodyOf(h).b.page_table # bpm.page_table

\* UnpinPage: page_table_.count(page_id), read without latch_.  The read is a
\* data race when another thread is writing the table.
Check(t) ==
    /\ ~crashed
    /\ in_call[t].pc = "check"
    /\ LET answer == IF InPageTable(bpm, in_call[t].page_id) THEN "found" ELSE "absent" IN
       \E out \in IF WriterBeside(t) THEN {answer, "absent", "fault"} ELSE {answer} :
          /\ crashed' = (out = "fault")
          /\ in_call' = [in_call EXCEPT ![t].pc = CASE out = "found" -> "lock"
                                              [] out = "absent" -> "idle"
                                              [] OTHER -> @]
    /\ UNCHANGED <<bpm, latch_, rw_latch, held>>
    /\ NoIo /\ LatchStep

\* disk_scheduler_->Schedule(r) by the thread under latch_.
ScheduleIo(r) ==
    /\ request_queue' = ChannelPut(request_queue, r)
    /\ scheduled' = Append(scheduled, r)
    /\ UNCHANGED <<worker_pc, request, disk_log, fulfilled, dtor_pc, dtor_backlog>>

\* std::scoped_lock lock(latch_): thread t gets latch_ when no thread holds
\* it, and schedules the first disk request of the method, if it has one.
Acquire(t) ==
    /\ ~crashed
    /\ in_call[t].pc = "lock"
    /\ latch_ = 0
    /\ latch_' = t
    /\ \E rs \in {IoRequests(bpm, in_call[t].op, in_call[t].page_id)} :
       IF rs = <<>>
       THEN in_call' = [in_call EXCEPT ![t].pc = "body"] /\ NoIo
       ELSE in_call' = [in_call EXCEPT ![t].pc = "io", ![t].io = 1] /\ ScheduleIo(rs[1])
    /\ UNCHANGED <<bpm, rw_latch, held, crashed>>
    /\ LatchStep

\* future.get() returns: the promise of the request is set.  The promise and
\* the request are gone after it; the next request of the method is scheduled.
IoDone(t) ==
    /\ ~crashed
    /\ in_call[t].pc = "io"
    /\ fulfilled[1] = 1
    /\ \E rs \in {IoRequests(bpm, in_call[t].op, in_call[t].page_id)} :
       IF in_call[t].io < Len(rs)
       THEN /\ in_call' = [in_call EXCEPT ![t].io = @ + 1]
            /\ request_queue' = ChannelPut(request_queue, rs[in_call[t].io + 1])
            /\ scheduled' = <<rs[in_call[t].io + 1]>>
       ELSE /\ in_call' = [in_call EXCEPT ![t].pc = "body", ![t].io = 0]
            /\ scheduled' = <<>>
            /\ UNCHANGED request_queue
    /\ disk_log' = <<>>
    /\ fulfilled' = [id \in RequestIds |-> 0]
    /\ UNCHANGED <<worker_pc, request, dtor_pc, dtor_backlog>>
    /\ UNCHANGED <<bpm, latch_, rw_latch, held, crashed>>
    /\ LatchStep

\* The next position of a thread whose method has returned frame_id.
AfterBody(c, frame_id) ==
    IF c.op \in {"read", "write"} /\ frame_id # NoFrame THEN "latch" ELSE "idle"

\* The part of the method under latch_, and the release of latch_ at its
\* return.  A guarded fetch that got a page goes on to latch it.
Body(t) ==
    /\ ~crashed
    /\ in_call[t].pc = "body"
    /\ \E r \in {BodyOf(t)} :
       /\ bpm' = r.b
       /\ crashed' = (r.b.replacer.fault # "none")
       /\ in_call' = [in_call EXCEPT ![t].pc = AfterBody(in_call[t], r.frame_id)]
       /\ held' = IF r.frame_id # NoFrame
                   THEN [held EXCEPT ![t] = [kind |-> IF in_call[t].op = "new" THEN "basic"
                                                     ELSE in_call[t].op,
                                            frame_id |-> r.frame_id]]
                   ELSE held
    /\ latch_' = 0
    /\ UNCHANGED rw_latch
    /\ NoIo /\ LatchStep

\* page->RLatch() / page->WLatch() in FetchPageRead / FetchPageWrite: the
\* thread waits until the latch can be had.
LatchPage(t) ==
    /\ ~crashed
    /\ in_call[t].pc = "latch"
    /\ LET f == held[t].frame_id IN
       /\ rw_latch[f].writer = 0
       /\ held[t].kind = "write" => rw_latch[f].readers = {}
       /\ rw_latch' = IF held[t].kind = "write"
                       THEN [rw_latch EXCEPT ![f].writer = t]
                       ELSE [rw_latch EXCEPT ![f].readers = @ \cup {t}]
    /\ in_call' = [in_call EXCEPT ![t].pc = "idle"]
    /\ UNCHANGED <<bpm, latch_, held, crashed>>
    /\ NoIo /\ LatchStep

\* The steps of thread t inside a pool method.
InPool(t) == Check(t) \/ Acquire(t) \/ IoDone(t) \/ Body(t)

\* The background thread of the disk scheduler, while the process lives.
LatchWorker == ~crashed /\ Worker

NextLatch ==
    \/ \E t \in Threads : CallLocked(t, "new", INVALID_PAGE_ID)
    \/ \E t \in Threads, page_id \in IdsOf(bpm) : CallLocked(t, "read", page_id)
    \/ \E t \in Threads, page_id \in IdsOf(bpm) : CallLocked(t, "write", page_id)
    \/ \E t \in Threads, page_id \in IdsOf(bpm) : CallLocked(t, "flush", page_id)
    \/ \E t \in Threads, page_id \in IdsOf(bpm) : CallLocked(t, "delete", page_id)
    \/ \E t \in Threads : CallDrop(t)
    \/ \E t \in Threads : Check(t)
    \/ \E t \in Threads : Acquire(t)
    \/ \E t \in Threads : IoDone(t)
    \/ \E t \in Threads : Body(t)
    \/ \E t \in Threads : LatchPage(t)
    \/ LatchWorker

SpecLatch == InitLatch /\ [][NextLatch]_vars

\* A thread inside a pool method is run until the method returns, and so is the
\* disk worker; nothing makes a thread call the pool, latch a page it waits for
\* or drop a guard.
SpecLatchFair ==
    SpecLatch /\ WF_vars(LatchWorker) /\ WF_vars(InPool(1)) /\ WF_vars(InPool(2))

\* ------------------------------------------------------------------ Trie claims

\* The arguments and the result of the call a step makes.
BaseRoot == tries[trie_op'.base]
NewRoot == tries'[Len(tries')]
IsPutStep == trie_op'.op = "put" /\ Len(tries') = Len(tries) + 1
IsRemoveStep == trie_op'.op = "remove" /\ Len(tries') = Len(tries) + 1
\* key holds a value in the trie rooted at root
HoldsValue(h, root, key) == \E T \in Types : Get(h, root, key, T) # <<>>
\* the node key leads to (Null when there is none)
NodeAt(h, root, key) == IF root = Null THEN Null ELSE GetWalk(h, root, key, 1)

\* C1: t.put(k,v).get(k) is v; every other key reads as it did in t; a put on a
\* key that holds a value replaces the value (no other type reads it any more)
\* and the new node has the children the old one had.
C1_PutRoundTrip ==
    [][IsPutStep =>
        LET k == trie_op'.key
            T == trie_op'.type
        IN  /\ Get(nodes', NewRoot, k, T) = <<trie_op'.value>>
            /\ \A T2 \in Types \ {T} : Get(nodes', NewRoot, k, T2) = <<>>
            /\ \A k2 \in Keys \ {k} : \A T2 \in Types :
                   Get(nodes', NewRoot, k2, T2) = Get(nodes, BaseRoot, k2, T2)
            /\ HoldsValue(nodes, BaseRoot, k) =>
                   nodes'[NodeAt(nodes', NewRoot, k)].children
                       = nodes[NodeAt(nodes, BaseRoot, k)].children
      ]_vars

\* A put of a new value on a key that held another value and whose node has a
\* child that holds a value too.
C1_Witness ==
    /\ trie_op.op = "put"
    /\ trie_op.key = <<"a">>
    /\ Len(tries) = trie_op.base + 1
    /\ Get(nodes, tries[trie_op.base], <<"a">>, "uint32_t") = <<1>>
    /\ Get(nodes, tries[Len(tries)], <<"a">>, "uint32_t") = <<2>>
    /\ Get(nodes, tries[Len(tries)], <<"a", "b">>, "uint32_t") # <<>>

\* C2: a put or a remove changes no node that existed before the call and no
\* handle the caller holds, so every older version reads the same for every key.
C2_Immutable ==
    [][ /\ Len(nodes') >= Len(nodes)
        /\ \A p \in 1..Len(nodes) : nodes'[p] = nodes[p]
        /\ \A i \in 1..Len(tries) :
               /\ tries'[i] = tries[i]
               /\ Obs(nodes', tries[i]) = Obs(nodes, tries[i])
      ]_vars

\* Version 3 was made from version 2, and then a remove was applied to version
\* 2 again, giving a third trie that differs from both.
C2_Witness ==
    /\ Len(tries) = 4
    /\ trie_op.op = "remove"
    /\ trie_from[3] = 2
    /\ trie_from[4] = 2
    /\ tries[2] # Null
    /\ Obs(nodes, tries[3]) # Obs(nodes, tries[2])
    /\ Obs(nodes, tries[4]) # Obs(nodes, tries[2])
    /\ Obs(nodes, tries[4]) # Obs(nodes, tries[3])
    /\ tries[3] # Null

\* C3: removing a key that holds a value makes the key absent and leaves every
\* other key as it was.
C3_RemovePresent ==
    [][(IsRemoveStep /\ HoldsValue(nodes, BaseRoot, trie_op'.key)) =>
        /\ ~crashed'
        /\ ~HoldsValue(nodes', NewRoot, trie_op'.key)
        /\ \A k2 \in Keys \ {trie_op'.key} : \A T2 \in Types :
               Get(nodes', NewRoot, k2, T2) = Get(nodes, BaseRoot, k2, T2)
      ]_vars

\* The removed node was a leaf below a value-less parent that had no other child:
\* the parent is pruned and the cascade stops at the root, which keeps "b".
C3_Witness ==
    /\ trie_op.op = "remove"
    /\ trie_op.key = <<"a", "b">>
    /\ Len(tries) = trie_op.base + 1
    /\ Get(nodes, tries[trie_op.base], <<"a", "b">>, "uint32_t") # <<>>
    /\ Get(nodes, tries[trie_op.base], <<"b">>, "uint32_t") # <<>>
    /\ NodeAt(nodes, tries[trie_op.base], <<"a">>) # Null
    /\ NodeAt(nodes, tries[Len(tries)], <<"a">>) = Null
    /\ Get(nodes, tries[Len(tries)], <<"b">>, "uint32_t") # <<>>

\* C4 (as claimed): a remove of a key that holds no value completes and returns
\* a trie that reads like the one it was called on, the empty trie included.
C4_RemoveAbsent ==
    [][(trie_op'.op = "remove" /\ ~HoldsValue(nodes, BaseRoot, trie_op'.key)) =>
        /\ ~crashed'
        /\ Len(tries') = Len(tries) + 1
        /\ Obs(nodes', NewRoot) = Obs(nodes, BaseRoot)
      ]_vars

\* The nodes of the trie rooted at root (Keys is closed under prefixes).
NodesOf(h, root) == {NodeAt(h, root, k) : k \in Keys} \ {Null}

\* C5 (as claimed): in every trie made by puts and removes, a node without
\* children is a value node, and a trie in which no key holds a value has no root.
C5_NoDanglingLeaf ==
    \A i \in 1..Len(tries) :
        /\ \A p \in NodesOf(nodes, tries[i]) :
               ChildrenEmpty(nodes[p]) => nodes[p].is_value_node
        /\ (\A k \in Keys : ~HoldsValue(nodes, tries[i], k)) => tries[i] = Null

\* ------------------------------------------------------------------ LRUKReplacer claims

\* The frames Evict may return: tracked and not in the non-evictable set.
Evictable(r) == Tracked(r) \ r.non_evictable_set

\* The element of set that comes first in seq.
Earliest(seq, set) ==
    seq[CHOOSE i \in 1..Len(seq) :
            /\ seq[i] \in set
            /\ \A j \in 1..Len(seq) : seq[j] \in set => i <= j]

OnList(list, f) == \E i \in 1..Len(list) : list[i] = f

\* C6: Evict returns the evictable frame with fewer than k accesses whose first
\* access is oldest; if there is none, the evictable frame with at least k
\* accesses whose most recent access is oldest; it fails exactly when no tracked
\* frame is evictable; the frame returned was not marked non-evictable and is
\* tracked no more.
C6_EvictChoice ==
    [][repl_op'.op = "evict" =>
        LET cold == {f \in Evictable(replacer) : replacer.count_map[f] < replacer.k}
            hot == {f \in Evictable(replacer) : replacer.count_map[f] >= replacer.k}
        IN  /\ repl_op'.ret = (Evictable(replacer) # {})
            /\ ~repl_op'.ret => replacer' = replacer
            /\ repl_op'.ret =>
                 /\ repl_op'.frame_id =
                        IF cold # {} THEN Earliest(repl_first, cold)
                        ELSE Earliest(repl_last, hot)
                 /\ repl_op'.frame_id \notin replacer.non_evictable_set
                 /\ repl_op'.frame_id \notin Tracked(replacer')
                 /\ ~OnList(replacer'.inf_history_list, repl_op'.frame_id)
                 /\ ~OnList(replacer'.history_list, repl_op'.frame_id)
                 /\ Tracked(replacer') = Tracked(replacer) \ {repl_op'.frame_id}
      ]_vars

\* Evict has just returned a frame with k accesses, passing over a frame with
\* fewer accesses that is marked non-evictable; another frame with k accesses,
\* touched later, stays.
C6_Witness ==
    /\ repl_op.op = "evict"
    /\ repl_op.ret
    /\ replacer.k = 2
    /\ repl_op.count >= replacer.k
    /\ \E f \in Tracked(replacer) :
           /\ replacer.count_map[f] < replacer.k
           /\ f \in replacer.non_evictable_set
    /\ \E f \in Evictable(replacer) : replacer.count_map[f] >= replacer.k

\* C7: Size() is the number of tracked frames that are not in the non-evictable
\* set; SetEvictable on an untracked frame or to the state the frame has, and
\* Remove on an untracked or non-evictable frame, change nothing.
C7_SizeCountsEvictable ==
    ~crashed =>
        /\ Size(replacer) = Cardinality(Evictable(replacer))
        /\ \A f \in FrameIds(replacer.replacer_size) : \A b \in BOOLEAN :
               (f \notin Tracked(replacer) \/ b = (f \in Evictable(replacer)))
                   => SetEvictable(replacer, f, b) = replacer
        /\ \A f \in FrameIds(replacer.replacer_size) :
               f \notin Evictable(replacer) => ReplacerRemove(replacer, f) = replacer

\* A state after calls of all four kinds: one frame was removed or evicted
\* after being promoted, two frames are tracked, one of them on the LRU list and
\* one marked non-evictable, so the size is 1; a Remove of the non-evictable
\* frame and a SetEvictable(false) on it would change nothing.
C7_Witness ==
    /\ ~crashed
    /\ Cardinality(Tracked(replacer)) = 2
    /\ Cardinality(replacer.non_evictable_set) = 1
    /\ Size(replacer) = 1
    /\ replacer.history_list # <<>>
    /\ \E f \in FrameIds(replacer.replacer_size) :
           f \notin Tracked(replacer) /\ replacer.inf_history_iter_map[f] = "stale"

\* ------------------------------------------------------------------ buffer pool claims

\* The step is a NewPage or a FetchPage call of some thread.
IsNewOrFetchStep ==
    \E t \in Threads : PoolNewPage(t) \/ \E p \in PageIds : PoolFetchPage(t, p)

\* The page ids that are resident with a positive pin count.
PinnedResident(b) ==
    {p \in PageIds : InPageTable(b, p) /\ b.pages[b.page_table[p]].pin_count > 0}

\* The frame of every pinned resident page is tracked and non-evictable.
PinnedNotEvictable(b) ==
    \A p \in PinnedResident(b) :
        /\ b.page_table[p] \in Tracked(b.replacer)
        /\ b.page_table[p] \in b.replacer.non_evictable_set

\* C8: in every state the frame of every resident page with a positive pin
\* count is non-evictable in the replacer, and a NewPage or FetchPage call leaves
\* every such page in its frame: the page-table entry, the page id held by the
\* frame and its bytes stay, and its pin count does not drop.
C8_PinnedStays ==
    [][ /\ PinnedNotEvictable(bpm')
        /\ IsNewOrFetchStep =>
             \A p \in PinnedResident(bpm) :
                 LET f == bpm.page_table[p] IN
                 /\ bpm'.page_table[p] = f
                 /\ bpm'.pages[f].page_id = bpm.pages[f].page_id
                 /\ bpm'.pages[f].data = bpm.pages[f].data
                 /\ bpm'.pages[f].pin_count >= bpm.pages[f].pin_count
      ]_vars

\* C9: every page-table entry id -> f has pages[f].page_id = id, and no valid
\* page id is held by two frames.
C9_OneFramePerPage ==
    /\ \A p \in PageIds :
           InPageTable(bpm, p) => bpm.pages[bpm.page_table[p]].page_id = p
    /\ \A f, g \in FrameIds(bpm.pool_size) :
           (f # g /\ bpm.pages[f].page_id # INVALID_PAGE_ID)
               => bpm.pages[f].page_id # bpm.pages[g].page_id

\* C10: no frame is both on the free list and the target of a page-table entry,
\* and no frame is on the free list twice.
C10_FreeListDisjoint ==
    /\ \A i \in 1..Len(bpm.free_list) : \A p \in PageIds :
           bpm.page_table[p] # bpm.free_list[i]
    /\ \A i, j \in 1..Len(bpm.free_list) :
           i # j => bpm.free_list[i] # bpm.free_list[j]

\* C11: for a page whose last modification has been followed by a successful
\* UnpinPage(id, true) and which has not been deleted since: a step that takes
\* the page's frame for another page leaves the modified bytes on disk, and
\* every successful FetchPage of the page returns a frame holding them.
C11_DirtySurvives ==
    [][ \A p \in IdsOf(bpm) : covered[p] =>
          /\ (/\ InPageTable(bpm, p)
              /\ bpm'.pages[bpm.page_table[p]].page_id # p
              /\ ~ \E t \in Threads : PoolDeletePage(t, p))
                 => bpm'.disk[p] = written[p]
          /\ ((\E t \in Threads : PoolFetchPage(t, p)) /\ FetchPage(bpm, p).ok)
                 => bpm'.pages[FetchPage(bpm, p).frame_id].data = written[p]
      ]_vars

\* The step takes the scenario from script step i to script step j.
ScriptMove(i, j) == scn_step = i /\ scn_step' = j

\* The first six steps of the scenario: NewPage gives id 0; after the write of
\* "A" and UnpinPage(0, true), NewPage gives ids 1, 2 and 3, the last one
\* evicting page 0.
ScenarioPrefix ==
    /\ ScriptMove(0, 1) => NewPage(bpm).ok /\ NewPage(bpm).page_id = 0
    /\ ScriptMove(1, 2) => bpm'.pages[bpm.page_table[0]].data = 1
    /\ ScriptMove(2, 3) => UnpinLocked(bpm, 0, TRUE).ret
    /\ ScriptMove(3, 4) => NewPage(bpm).ok /\ NewPage(bpm).page_id = 1
    /\ ScriptMove(4, 5) => NewPage(bpm).ok /\ NewPage(bpm).page_id = 2
    /\ ScriptMove(5, 6) =>
          /\ NewPage(bpm).ok /\ NewPage(bpm).page_id = 3
          /\ bpm.free_list = <<>>
          /\ InPageTable(bpm, 0) /\ ~InPageTable(bpm', 0)

\* C12 as stated: in the scenario the FetchPage(0) that follows the three
\* NewPage calls returns a frame whose bytes begin with "A".
C12_Scenario ==
    [][ /\ ScenarioPrefix
        /\ ScriptMove(6, 7) =>
              /\ FetchPage(bpm, 0).ok
              /\ bpm'.pages[FetchPage(bpm, 0).frame_id].data = 1
      ]_vars

\* C12 amended: pages 1, 2 and 3 are pinned, so that FetchPage(0) returns
\* nullptr and leaves the pool as it is; once page 1, 2 or 3 has been unpinned,
\* FetchPage(0) returns a frame whose bytes begin with "A".
C12_ScenarioUnpinned ==
    [][ /\ ScenarioPrefix
        /\ ScriptMove(6, 7) => ~FetchPage(bpm, 0).ok /\ bpm' = bpm
        /\ ScriptMove(8, 9) =>
              /\ FetchPage(bpm, 0).ok
              /\ bpm'.pages[FetchPage(bpm, 0).frame_id].data = 1
              /\ bpm'.pages[FetchPage(bpm, 0).frame_id].page_id = 0
      ]_vars

\* The scenario has run to its end: page 0 is back in a frame, with "A".
C12_Witness ==
    /\ scn_step = 9
    /\ InPageTable(bpm, 0)
    /\ bpm.pages[bpm.page_table[0]].data = 1
    /\ bpm.disk[0] = 1

\* C13: at the step where UnpinPage(id, d) takes effect (it holds latch_): when
\* id is not resident or its pin count is 0, the call returns false and the
\* pool is as before; otherwise it returns true, the page's pin count is one
\* less, every other pin count and the page table are as before, and the frame
\* is evictable afterwards exactly when the count has reached 0.
C13_UnpinContract ==
    [][ \A t \in Threads : \A d \in BOOLEAN : PoolUnpinLocked(t, d) =>
          LET p == pool_arg[t]
              r == UnpinLocked(bpm, p, d)
              f == bpm.page_table[p]
          IN  IF ~InPageTable(bpm, p) \/ bpm.pages[f].pin_count = 0
              THEN ~r.ret /\ bpm' = bpm
              ELSE /\ r.ret
                   /\ bpm'.pages[f].pin_count = bpm.pages[f].pin_count - 1
                   /\ \A g \in FrameIds(bpm.pool_size) \ {f} : bpm'.pages[g] = bpm.pages[g]
                   /\ bpm'.page_table = bpm.page_table
                   /\ bpm'.free_list = bpm.free_list
                   /\ (f \in Evictable(bpm'.replacer)) = (bpm'.pages[f].pin_count = 0)
      ]_vars


\* The frames that hold page page_id in pool b.
FramesOf(b, page_id) == {f \in DOMAIN b.pages : b.pages[f].page_id = page_id}

\* The pins the looping threads hold on the page: the FetchPage calls that
\* returned it and were not yet followed by an UnpinPage that returned true.
RECURSIVE HeldBy(_)
HeldBy(ts) ==
    IF ts = {} THEN 0
    ELSE LET t == CHOOSE x \in ts : TRUE IN holds[t] + HeldBy(ts \ {t})

\* Every looping thread has made all its calls.
LoopFinished == \A t \in Threads : loop_left[t] = 0 /\ pool_pc[t] = "idle"

\* C14 (state part): while the threads loop over FetchPage(p); UnpinPage(p),
\* p is in at most one frame, the frame the page table names; its pin count
\* equals the successful fetches not yet unpinned and is never negative; no read
\* of the page table races a write; and once every thread has finished, the pin
\* count is 0 and the frame is evictable.
C14_LoopPins ==
    /\ ~crashed
    /\ Cardinality(FramesOf(bpm, LoopPage)) <= 1
    /\ \A f \in FramesOf(bpm, LoopPage) :
          /\ InPageTable(bpm, LoopPage) /\ bpm.page_table[LoopPage] = f
          /\ bpm.pages[f].pin_count = HeldBy(Threads)
          /\ bpm.pages[f].pin_count >= 0
    /\ FramesOf(bpm, LoopPage) = {} => HeldBy(Threads) = 0
    /\ LoopFinished =>
          /\ FramesOf(bpm, LoopPage) # {}
          /\ \A f \in FramesOf(bpm, LoopPage) :
                bpm.pages[f].pin_count = 0 /\ f \in Evictable(bpm.replacer)

\* C14 (step part): every fetch of the loop returns the page; the first one
\* installs it and each later one hits the frame it is in; every unpin of the
\* loop returns true.
C14_LoopCalls ==
    [][ \A t \in Threads :
          /\ PoolFetchPage(t, LoopPage) =>
                LET r == FetchPage(bpm, LoopPage) IN
                /\ r.ok
                /\ InPageTable(bpm, LoopPage) => r.frame_id = bpm.page_table[LoopPage]
                /\ FramesOf(bpm', LoopPage) = {r.frame_id}
          /\ PoolUnpinCheck(t, LoopPage) => pool_pc'[t] = "unpin"
          /\ \A d \in BOOLEAN : PoolUnpinLocked(t, d) => UnpinLocked(bpm, LoopPage, d).ret
      ]_vars

\* C14: both parts.
C14_FetchUnpinLoop == []C14_LoopPins /\ C14_LoopCalls

\* Both threads hold a pin on the page at once, one of them in its last round.
C14_Witness ==
    /\ \A t \in Threads : holds[t] = 1
    /\ \E t \in Threads : loop_left[t] = 1
    /\ \E f \in FramesOf(bpm, LoopPage) : bpm.pages[f].pin_count = 2


\* Pool b has no frame to give: the free list is empty and the replacer has no
\* evictable frame.
Exhausted(b) == b.free_list = <<>> /\ Evictable(b.replacer) = {}

\* Every page that a frame of b holds is pinned.
AllResidentPinned(b) ==
    \A f \in DOMAIN b.pages :
        b.pages[f].page_id # INVALID_PAGE_ID => b.pages[f].pin_count > 0

\* C15: with the free list empty and no evictable frame, NewPage and FetchPage
\* of a page that is not resident return nullptr and leave the pool, the
\* allocator included, as it was; this is the case whenever the free list is
\* empty and every resident page is pinned; and with a frame on the free list
\* both take that frame and none from the replacer.
C15_Exhausted ==
    /\ (bpm.free_list = <<>> /\ AllResidentPinned(bpm)) => Exhausted(bpm)
    /\ Exhausted(bpm) =>
          /\ ~NewPage(bpm).ok /\ NewPage(bpm).b = bpm
          /\ \A p \in IdsOf(bpm) : ~InPageTable(bpm, p) =>
                ~FetchPage(bpm, p).ok /\ FetchPage(bpm, p).b = bpm
    /\ bpm.free_list # <<>> =>
          LET back == bpm.free_list[Len(bpm.free_list)] IN
          /\ bpm.next_page_id \in IdsOf(bpm) =>
                /\ NewPage(bpm).ok /\ NewPage(bpm).frame_id = back
                /\ Tracked(bpm.replacer) \subseteq Tracked(NewPage(bpm).b.replacer)
          /\ \A p \in IdsOf(bpm) : ~InPageTable(bpm, p) =>
                /\ FetchPage(bpm, p).ok /\ FetchPage(bpm, p).frame_id = back
                /\ Tracked(bpm.replacer) \subseteq Tracked(FetchPage(bpm, p).b.replacer)

\* Every frame holds a pinned page, some page id is not resident, and the
\* calls have just been refused a frame: the pool is as the last call found it.
C15_Witness ==
    /\ Exhausted(bpm)
    /\ \A f \in DOMAIN bpm.pages : bpm.pages[f].pin_count > 0
    /\ \E p \in IdsOf(bpm) : ~InPageTable(bpm, p)
    /\ bpm.next_page_id > 0


\* frame_id occurs in the free list of b.
OnFreeList(b, frame_id) == \E i \in 1..Len(b.free_list) : b.free_list[i] = frame_id

\* C16: DeletePage(id) returns true and changes nothing when id is not
\* resident; returns false and changes nothing when the page is pinned; and for
\* a resident page with pin count 0 returns true, erases id from the page table,
\* puts the frame on the free list, removes it from the replacer, whose size
\* drops by one, resets the frame (INVALID_PAGE_ID, pin 0, clean) and leaves the
\* disk as it was.
C16_DeleteContract ==
    \A id \in IdsOf(bpm) :
        LET r == DeletePage(bpm, id)
            f == bpm.page_table[id]
        IN  IF ~InPageTable(bpm, id) THEN r.ret /\ r.b = bpm
            ELSE IF bpm.pages[f].pin_count > 0 THEN ~r.ret /\ r.b = bpm
            ELSE /\ r.ret
                 /\ ~InPageTable(r.b, id)
                 /\ OnFreeList(r.b, f)
                 /\ f \notin Tracked(r.b.replacer)
                 /\ Size(r.b.replacer) = Size(bpm.replacer) - 1
                 /\ r.b.pages[f].page_id = INVALID_PAGE_ID
                 /\ r.b.pages[f].pin_count = 0
                 /\ ~r.b.pages[f].is_dirty
                 /\ r.b.disk = bpm.disk


\* seq is the first Len(seq) elements of of.
IsPrefix(seq, of) == Len(seq) <= Len(of) /\ \A i \in 1..Len(seq) : seq[i] = of[i]

\* The disk manager has performed the request with this id.
Performed(id) == \E i \in 1..Len(disk_log) : disk_log[i].id = id

\* C17: the calls the disk manager gets are the scheduled requests in the order
\* they were scheduled; no promise is set twice, none before its request's
\* ReadPage / WritePage was made; and whenever the worker waits on an empty
\* queue every scheduled request was performed and its promise set once.
C17_WorkerOrder ==
    /\ IsPrefix(disk_log, scheduled)
    /\ \A id \in RequestIds :
          /\ fulfilled[id] <= 1
          /\ fulfilled[id] = 1 => Performed(id)
    /\ (worker_pc = "get" /\ request_queue = <<>> /\ dtor_pc = "alive") =>
          /\ disk_log = scheduled
          /\ \A i \in 1..Len(scheduled) : fulfilled[scheduled[i].id] = 1

\* Two requests for the same page, a write then a read, have been performed
\* and fulfilled.
C17_Witness ==
    /\ Len(scheduled) >= 2
    /\ scheduled[1].page_id = scheduled[2].page_id
    /\ scheduled[1].is_write /\ ~scheduled[2].is_write
    /\ Len(disk_log) >= 2
    /\ fulfilled[1] = 1 /\ fulfilled[2] = 1


\* ~DiskScheduler has returned with the worker gone on the sentinel, the queue
\* drained and every scheduled request performed and its promise set.
Drained ==
    /\ worker_pc = "exited"
    /\ request = NullOpt
    /\ request_queue = <<>>
    /\ disk_log = scheduled
    /\ \A i \in 1..Len(scheduled) : fulfilled[scheduled[i].id] = 1

\* C18: once ~DiskScheduler has begun it returns; the worker leaves its loop
\* only on the sentinel, after the destructor began; and when the destructor
\* returns every request scheduled before it has been performed and fulfilled
\* and the worker has exited.
C18_DestroyTerminates ==
    /\ [](worker_pc = "exited" => request = NullOpt /\ dtor_pc # "alive")
    /\ [](dtor_pc = "done" => Drained)
    /\ (dtor_pc = "join" ~> dtor_pc = "done")

\* The destructor has returned, and it began with two requests or more still
\* to be fulfilled.
C18_Witness == dtor_pc = "done" /\ dtor_backlog >= 2 /\ Drained


\* The positions in guard_calls of the calls op made for the pin page.
CallsOf(op, page) ==
    {i \in 1..Len(guard_calls) : guard_calls[i].op = op /\ guard_calls[i].page = page}

\* The guard variables whose object holds the pin page.
HoldersOf(page) ==
    {v \in GuardSlots : guards[v].state = "live" /\ guards[v].guard_.page_ = page}

\* The unlatch call a guard of this kind makes.
UnlatchOf(kind) == IF kind = "read" THEN "RUnlatch" ELSE "WUnlatch"

\* C19: whatever moves, drops and destructions the guards went through, every
\* pin a guarded fetch took is either still held by exactly one guard, with no
\* call made for it, or held by none and released by exactly one UnpinPage call;
\* a read or write guard's pin has exactly one unlatch call of its kind, made
\* before the UnpinPage call, and a basic guard's pin none; a write guard unpins
\* with is_dirty = true; and no call is made for a null page.
C19_GuardReleasesOnce ==
    /\ \A i \in 1..Len(guard_calls) : guard_calls[i].page \in 1..Len(guard_pins)
    /\ \A page \in 1..Len(guard_pins) :
          LET kind == guard_pins[page]
              unpins == CallsOf("UnpinPage", page)
              unlatches == CallsOf("RUnlatch", page) \cup CallsOf("WUnlatch", page)
          IN  /\ Cardinality(HoldersOf(page)) + Cardinality(unpins) = 1
              /\ \A v \in HoldersOf(page) : guards[v].kind = kind /\ guards[v].guard_.bpm_
              /\ IF kind = "basic" THEN unlatches = {}
                 ELSE /\ unlatches = CallsOf(UnlatchOf(kind), page)
                      /\ Cardinality(unlatches) = Cardinality(unpins)
                      /\ \A i \in unlatches : \A j \in unpins : i < j
              /\ kind = "write" => \A j \in unpins : guard_calls[j].is_dirty

\* Every guard variable has been destroyed after three guarded fetches returned
\* pages, a write guard among them: four or more calls were made.
C19_Witness ==
    /\ \A v \in GuardSlots : guards[v].state = "gone"
    /\ Len(guard_pins) = MaxGuards
    /\ \E page \in 1..Len(guard_pins) : guard_pins[page] = "write"
    /\ Len(guard_calls) >= 4


\* Thread t has called a pool method (NewPage, FetchPage, UnpinPage, FlushPage
\* or DeletePage) that has not returned.
InPoolMethod(t) == in_call[t].pc \in {"check", "lock", "io", "body"}

\* Thread t holds the latch of some page.
HoldsPageLatch(t) ==
    \E f \in DOMAIN rw_latch : t \in rw_latch[f].readers \/ rw_latch[f].writer = t

\* C20 (locks): a thread that holds latch_ is inside the locked part of a pool
\* method, never waiting for a page latch; a guarded fetch waits for the page
\* latch only after FetchPage has returned; and a guard has released its page
\* latch by the time its Drop calls UnpinPage.
C20_LatchOrder ==
    \A t \in Threads :
        /\ latch_ = t => in_call[t].pc \in {"io", "body"}
        /\ in_call[t].pc = "latch" => latch_ # t /\ ~InPoolMethod(t)
        /\ (in_call[t].op = "unpin" /\ InPoolMethod(t)) => ~HoldsPageLatch(t)

\* C20 (progress): every call of a pool method returns, whatever page latches
\* the other threads hold and however long they hold them.
C20_PoolMethodsReturn == \A t \in Threads : InPoolMethod(t) ~> ~InPoolMethod(t)

Occurrences(list, frame_id) ==
    Cardinality({i \in 1..Len(list) : list[i] = frame_id})

\* C21: for every k >= 1 and after any calls, every tracked frame is once on
\* inf_history_list_ and not on history_list_ when its access count is below k,
\* once on history_list_ and not on inf_history_list_ when it is k or more; and
\* no RecordAccess or Remove has erased through an iterator that points to no
\* node of the list it erases from.
C21_OneListPerFrame ==
    /\ replacer.fault # "ub"
    /\ \A f \in Tracked(replacer) :
          IF replacer.count_map[f] < replacer.k
          THEN /\ Occurrences(replacer.inf_history_list, f) = 1
               /\ Occurrences(replacer.history_list, f) = 0
          ELSE /\ Occurrences(replacer.inf_history_list, f) = 0
               /\ Occurrences(replacer.history_list, f) = 1

====
